---- MODULE Spec2Model ----
(***************************************************************************)
(* A model of script-kiwi's resolution and execution core:                 *)
(*   - ScriptResolver  (src/script_kiwi/utils/script_resolver.py)          *)
(*   - EnvManager      (src/script_kiwi/utils/env_manager.py)              *)
(*   - RunTool.execute (src/script_kiwi/tools/run.py)                      *)
(* Three specifications share the module: SpecResolve (the three tiers     *)
(* and resolve_script), SpecEnv (processes calling ensure_venv on one      *)
(* venv_dir) and SpecRun (one RunTool.execute call, step by step).         *)
(***************************************************************************)
EXTENDS Naturals, Integers, Sequences, FiniteSets, TLC

VARIABLES
    \* ---- the three tiers (ScriptResolver) ----
    projectFiles,   \* files under {project_root}/.ai/scripts
    userFiles,      \* files under {script_kiwi_home}/scripts
    registry,       \* registry rows: script name -> row, or NoRow
    registryClient, \* "none" (no Supabase client), "ok", "failing" (every call raises)
    projectLock,    \* {project_root}/.ai/scripts.lock.json
    userLock,       \* {user_home}/.script-kiwi/scripts.lock.json
    resolved,       \* value returned by the last resolve_script call on this tier state
    resolveArgs,    \* the arguments of that call
    \* ---- one venv_dir and the processes calling ensure_venv on it (EnvManager) ----
    venvDir,        \* venv_dir exists
    venvPython,     \* venv_dir/bin/python exists (the marker ensure_venv tests)
    venvComplete,   \* some creation ran to its end: venv built and the pip upgrade finished
    lockHolder,     \* the processes holding the flock on .venv.lock (none or one)
    lockAcquired,   \* per process: the local lock_acquired of its ensure_venv call
    envPc,          \* per process: its position in ensure_venv
    envOutcome,     \* per process: how its last ensure_venv call ended
    \* ---- one RunTool.execute call ----
    runPc,          \* position in execute
    req,            \* the call's params: script_name, dry_run, auto_download, _stream_logs
    logDir,         \* ~/.script-kiwi/.runs: "ok", "unwritable" (open fails), "uncreatable" (mkdir raises)
    remoteLog,      \* ExecutionLogger.client: "none" (not configured), "ok", "failing"
    preflight,      \* run_preflight's verdict in this call: "notrun", "pass", "fail"
    execId,         \* execution_id returned by start_execution, or None
    shape,          \* what the loaded module exposes: "execute", "main_params", "main_argparse", "neither"
    scriptStatus,   \* the status in the result the script produced, or None
    did,            \* what the call has done so far (packages installed, execution started, script code run)
    history,        \* ~/.script-kiwi/.runs/history.jsonl: the entries appended
    remoteCalls,    \* the complete_execution calls made on the ExecutionLogger
    response,       \* what execute returned (or that it raised)
    \* ---- the dependency stages of execute (run.py:1129-1202), with their data ----
    depPc,          \* position in the dependency stages
    libIn,          \* required_libs and the lib/ directories _verify_lib_dependencies can meet
    mergeIn,        \* the file's dependencies and the registry row's "dependencies" value
    pipDeps,        \* the local pip_dependencies
    pipIn,          \* missing_deps and how pip ends for each package
    depDid,         \* whether the import probes / the pip installs were attempted
    depResponse,    \* what execute returned from these stages
    \* ---- how a failure of the script travels through execute ----
    fault,          \* what went wrong in the script, the exception in flight, the result's error_type
    errorReport,    \* the error_type and missing_module the response carries
    \* ---- one _run_argparse_script call: the subprocess, its pipes, the parent ----
    procIn,         \* _timeout, stream_logs, what the script writes, whether a descendant keeps the pipes open
    clock,          \* seconds since the subprocess was started
    child,          \* the subprocess: "notstarted", "running", "exited", "killed"
    written,        \* per stream: the output the subprocess has written so far
    pipe,           \* per stream: the output sitting in the pipe buffer
    reader,         \* per stream: the reader of the parent's end: "idle", "running", "done"
    parentPc,       \* position of the parent in _run_argparse_script
    procResult,     \* the dict _run_argparse_script returns
    \* ---- one _run_function_script call: sys.stderr and the logging handlers ----
    funcPc,         \* position in _run_function_script
    funcIn,         \* stream_logs and how the entry function ends
    sysStderr,      \* the object sys.stderr names: "original" or "dual"
    handlerStream,  \* per logging handler: the object its stream attribute names
    handlerBefore,  \* per logging handler: its stream when the call began
    updatedHandlers, \* the local updated_handlers
    loopIx,         \* how far the two handler loops have got
    \* ---- truncate_large_response applied once and twice ----
    truncPc,        \* "idle", "input", "once", "twice"
    truncIn,        \* the payload and the item cap
    truncOnce,      \* truncate(d, n)
    truncTwice,     \* truncate(truncate(d, n), n)
    \* ---- a script's result on its way to the response and the result file ----
    shapePc,        \* position: "run", "extract", "file", "respond", "done", "raised"
    shapeIn,        \* the strategy, what the script returns or prints, _output_file, _save_output
    runnerResult,   \* the local result of execute
    resultData,     \* the local result_data
    resultFile,     \* the result file: whether written, where, its content
    shapeResponse,  \* the response: status, result, metadata
    \* ---- the output paths of one RunTool.execute call ----
    outFs,          \* the folders created and the result files written
    \* ---- the parameters of one call on their way to the script ----
    paramPc,        \* "given", "stripped", "invoked"
    paramIn,        \* the strategy and params["parameters"]
    scriptParams,   \* the local script_params
    handed,         \* what the script is invoked with: a dict or command-line arguments
    \* ---- one run of the install loop over a list of packages ----
    instPc,         \* "start", "loop", "returned", "raised"
    instIn,         \* the caller, the packages, how pip ends for each
    instIx,         \* the position of the loop in the list
    attempted,      \* the names pip was asked to install, in order
    installedList,  \* the local installed
    failedList,     \* the local failed
    instResult,     \* the dict returned
    \* ---- several invocations in one server process ----
    logPc,          \* per invocation: its position in execute
    logIn,          \* per invocation: what its script does with its diagnostics, _stream_logs
    logId,          \* per invocation: its execution_id (0 before start_execution)
    nextUuid,       \* the next value uuid4 returns
    loopOwner,      \* the invocation running on the event loop between two awaits, or 0
    stderrNow,      \* sys.stderr: the original stderr or the DualStderr of an invocation
    rootHandler,    \* the stream of the root logger's handler
    rootUpdated,    \* updated_handlers holds the root handler
    historyFile,    \* history.jsonl, each entry with the invocation it is written for
    \* ---- one remove call and the three tiers it works on ----
    rmProject,      \* the .py files under {project_root}/.ai/scripts, with what they import
    rmUser,         \* the .py files under {script_kiwi_home}/scripts
    rmRows,         \* the registry's scripts table: name -> row
    rmClient,       \* whether the registry has a Supabase client
    rmReq,          \* the params of the last remove call
    rmBefore,       \* the tiers as they were when the last call started
    rmResponse,     \* what the last call returned
    \* ---- the registry rows of one script and the publish calls in flight ----
    pubRows,        \* script_versions: the rows of the script, each with is_latest
    pubLatest,      \* scripts.latest_version
    pubPc,          \* per publisher: how far its publish_script call is
    pubVer,         \* per publisher: the version it publishes
    nextVersion,    \* the next version nobody has published yet
    pubOverlap,     \* two calls have been in flight at once
    pubFailed,      \* a request of some call has raised
    \* ---- the auto-named result files of several executions of one script ----
    nameClock,      \* time.time() in whole seconds
    nameFiles,      \* per auto-generated path: the execution whose data the file holds, or 0
    namePath,       \* per execution: the path it wrote its result to
    \* ---- sys.path and sys.modules around one dynamic import ----
    modPc,          \* "start", "import", "entry", "finally", "returned"
    modIn,          \* the script's stem and what its module does
    sysPath,        \* sys.path
    sysModules,     \* sys.modules: per name "absent", "loaded" or "script" (the script's module)
    originalPath,   \* the local original_path
    pathBefore,     \* sys.path when the call started
    modulesBefore,  \* sys.modules when the call started
    \* ---- one _validate_dependencies call ----
    valPc,          \* "given", "returned"
    valIn,          \* the argument
    valOut,         \* the ValueError raised or the list returned
    \* ---- the lib folders and the library downloads of load and run ----
    homeRelocated,  \* SCRIPT_KIWI_HOME is set and is not ~/.script-kiwi
    libFiles,       \* per lib folder and library: "absent", "custom" or "registry" content
    libBefore,      \* libFiles before the first download
    libInRegistry,  \* per library: the registry returns content for it
    libCalls,       \* the loop iterations done so far: tool and library
    \* ---- one call of a function wrapped by with_retry ----
    retryPc,        \* "call", "sleep", "returned", "raised"
    retryIn,        \* max_retries and backoff_base
    attempt,        \* the loop variable
    outcomes,       \* how each call of the wrapped function ended, in order
    waits,          \* the arguments of time.sleep, in order
    lastError,      \* the local last_error
    raisedError     \* the exception the wrapper raised to its caller

tierVars == <<projectFiles, userFiles, registry, registryClient, projectLock, userLock>>
resolverVars == <<resolved, resolveArgs>>
envVars == <<venvDir, venvPython, venvComplete, lockHolder, lockAcquired, envPc, envOutcome>>
runVars == <<runPc, req, logDir, remoteLog, preflight, execId, shape, scriptStatus, did,
             history, remoteCalls, response>>
depVars == <<depPc, libIn, mergeIn, pipDeps, pipIn, depDid, depResponse>>
faultVars == <<fault, errorReport>>
procVars == <<procIn, clock, child, written, pipe, reader, parentPc, procResult>>
funcVars == <<funcPc, funcIn, sysStderr, handlerStream, handlerBefore, updatedHandlers, loopIx>>
truncVars == <<truncPc, truncIn, truncOnce, truncTwice>>
shapeVars == <<shapePc, shapeIn, runnerResult, resultData, resultFile, shapeResponse>>
outVars == <<outFs>>
paramVars == <<paramPc, paramIn, scriptParams, handed>>
instVars == <<instPc, instIn, instIx, attempted, installedList, failedList, instResult>>
logVars == <<logPc, logIn, logId, nextUuid, loopOwner, stderrNow, rootHandler, rootUpdated,
             historyFile>>
rmVars == <<rmProject, rmUser, rmRows, rmClient, rmReq, rmBefore, rmResponse>>
pubVars == <<pubRows, pubLatest, pubPc, pubVer, nextVersion, pubOverlap, pubFailed>>
nameVars == <<nameClock, nameFiles, namePath>>
modVars == <<modPc, modIn, sysPath, sysModules, originalPath, pathBefore, modulesBefore>>
valVars == <<valPc, valIn, valOut>>
libVars == <<homeRelocated, libFiles, libBefore, libInRegistry, libCalls>>
retryVars == <<retryPc, retryIn, attempt, outcomes, waits, lastError, raisedError>>
toolVars == <<rmVars, pubVars, nameVars, modVars, valVars, libVars, retryVars>>
laterVars == <<truncVars, shapeVars, outVars, paramVars, instVars, logVars, toolVars>>
stageVars == <<depVars, faultVars, procVars, funcVars, laterVars>>
baseVars == <<tierVars, resolverVars, envVars, runVars, depVars, faultVars, procVars, funcVars>>
\* Everything but the variables of one of the later models.
allButTrunc == <<baseVars, shapeVars, outVars, paramVars, instVars, logVars, toolVars>>
allButShape == <<baseVars, truncVars, outVars, paramVars, instVars, logVars, toolVars>>
allButParams == <<baseVars, truncVars, shapeVars, outVars, instVars, logVars, toolVars>>
allButInstall == <<baseVars, truncVars, shapeVars, outVars, paramVars, logVars, toolVars>>
allButLog == <<baseVars, truncVars, shapeVars, outVars, paramVars, instVars, toolVars>>
allButRemove == <<baseVars, truncVars, shapeVars, outVars, paramVars, instVars, logVars, pubVars, nameVars, modVars, valVars, libVars, retryVars>>
allButPublish == <<baseVars, truncVars, shapeVars, outVars, paramVars, instVars, logVars, rmVars, nameVars, modVars, valVars, libVars, retryVars>>
allButNames == <<baseVars, truncVars, shapeVars, outVars, paramVars, instVars, logVars, rmVars, pubVars, modVars, valVars, libVars, retryVars>>
allButModules == <<baseVars, truncVars, shapeVars, outVars, paramVars, instVars, logVars, rmVars, pubVars, nameVars, valVars, libVars, retryVars>>
allButValidate == <<baseVars, truncVars, shapeVars, outVars, paramVars, instVars, logVars, rmVars, pubVars, nameVars, modVars, libVars, retryVars>>
allButLibs == <<baseVars, truncVars, shapeVars, outVars, paramVars, instVars, logVars, rmVars, pubVars, nameVars, modVars, valVars, retryVars>>
allButRetry == <<baseVars, truncVars, shapeVars, outVars, paramVars, instVars, logVars, rmVars, pubVars, nameVars, modVars, valVars, libVars>>

(***************************************************************************)
(* Bounds of the model.                                                    *)
(***************************************************************************)
MaxFiles == 2
NumProcs == 2

(***************************************************************************)
(* Values.                                                                 *)
(***************************************************************************)
None == "None"

Names == {"s", "t"}
Categories == {"c1", "c2"}
Subcategories == {"sub"}
Versions == {"1.0.0", "2.0.0"}

\* A file {category}[/{subcategory}]/{name}.py below a tier's scripts root.
Paths == [cat : Categories, sub : Subcategories \cup {None}, name : Names]

NoPath == [cat |-> None, sub |-> None, name |-> None]

NoRow == [present |-> FALSE, version |-> None, hasContent |-> FALSE,
          category |-> None, subcategory |-> None]

RegistryRows == {NoRow} \cup [present : {TRUE}, version : Versions, hasContent : BOOLEAN,
                               category : Categories, subcategory : Subcategories \cup {None}]

\* A lockfile: whether the file exists and the version it pins per script name
\* (None: the name is not listed under "scripts").
NoPins == [n \in Names |-> None]
PinS(v) == [n \in Names |-> IF n = "s" THEN v ELSE None]
NoLockfile == [exists |-> FALSE, pins |-> NoPins]

(***************************************************************************)
(* ScriptResolver                                                          *)
(***************************************************************************)

\* _get_lockfile_version: the project lockfile if that file exists, otherwise the
\* user lockfile; the pin listed for the name, or None.
GetLockfileVersion(name) ==
    IF projectLock.exists THEN projectLock.pins[name]
    ELSE IF userLock.exists THEN userLock.pins[name]
    ELSE None

\* The files rglob("{name}.py") yields below a category directory / below the root.
Matches(files, name, category) ==
    IF category # None
    THEN {p \in files : p.name = name /\ p.cat = category}
    ELSE {p \in files : p.name = name}

\* _check_project_space / _check_user_space: the set of paths the search may return
\* (rglob's traversal order is not defined, so any match may come first); {NoPath}
\* when nothing matches.  With a category the direct path wins over nested ones.
CheckSpace(files, name, category) ==
    LET direct == [cat |-> category, sub |-> None, name |-> name]
        m == Matches(files, name, category)
    IN  IF category # None /\ direct \in files THEN {direct}
        ELSE IF m = {} THEN {NoPath}
        ELSE m

\* _extract_category_from_path / _extract_subcategory_from_path
ExtractCategory(path) == path.cat
ExtractSubcategory(path) == path.sub

\* _check_registry: None without a client, None when the lookup raises (swallowed),
\* otherwise the row of the name (the pinned version when a lockfile pins one).
\* What "await self.registry_client.get_script(...)" and the lines after it do inside
\* the try block: the row, no row, or an exception (LookupRaised).
LookupRaised == [present |-> FALSE, version |-> "raised", hasContent |-> FALSE,
                 category |-> None, subcategory |-> None]

TryGetScript(name, lockVersion) ==
    IF registryClient = "failing" THEN LookupRaised
    ELSE IF ~registry[name].present THEN NoRow
    ELSE registry[name]

\* A plausible slip: the lookup is not wrapped in try/except.
Propagated(outcome) == outcome

\* "except Exception as e: print(...); return None"
ExceptReturnsNone(outcome) == IF outcome = LookupRaised THEN NoRow ELSE outcome

CheckRegistry(name, lockVersion) ==
    IF registryClient = "none" THEN NoRow
    ELSE ExceptReturnsNone(TryGetScript(name, lockVersion))

LocalResult(loc, path, category, lockVersion) ==
    [location |-> loc, path |-> path,
     category |-> IF category # None THEN category ELSE ExtractCategory(path),
     subcategory |-> ExtractSubcategory(path),
     version |-> None, lockfile_version |-> lockVersion]

\* A plausible slip: the user tier is searched before the project tier.
ResolveUserFirst(name, category) ==
    LET lv == GetLockfileVersion(name)
        pp == CheckSpace(projectFiles, name, category)
        up == CheckSpace(userFiles, name, category)
    IN  IF up # {NoPath}
        THEN {LocalResult("user", p, category, lv) : p \in up}
        ELSE IF pp # {NoPath}
        THEN {LocalResult("project", p, category, lv) : p \in pp}
        ELSE {[location |-> None, path |-> NoPath, category |-> None,
               subcategory |-> None, version |-> None, lockfile_version |-> lv]}

\* resolve_script over given tier contents: the set of values the call may return.
ResolveIn(project, user, name, category) ==
    LET lv == GetLockfileVersion(name)
        pp == CheckSpace(project, name, category)
        up == CheckSpace(user, name, category)
        row == CheckRegistry(name, lv)
    IN  IF pp # {NoPath}
        THEN {LocalResult("project", p, category, lv) : p \in pp}
        ELSE IF up # {NoPath}
        THEN {LocalResult("user", p, category, lv) : p \in up}
        ELSE IF row = LookupRaised
        THEN {[location |-> "raised", path |-> NoPath, category |-> None,
               subcategory |-> None, version |-> None, lockfile_version |-> lv]}
        ELSE IF row.present
        THEN {[location |-> "registry", path |-> NoPath, category |-> row.category,
               subcategory |-> row.subcategory, version |-> row.version,
               lockfile_version |-> lv]}
        ELSE {[location |-> None, path |-> NoPath, category |-> None,
               subcategory |-> None, version |-> None, lockfile_version |-> lv]}

\* resolve_script in the current tier state.
ResolveScript(name, category) == ResolveIn(projectFiles, userFiles, name, category)

NoCall == [name |-> None, category |-> None]
NoResult == [location |-> "pending", path |-> NoPath, category |-> None,
             subcategory |-> None, version |-> None, lockfile_version |-> None]

FileCount == Cardinality(projectFiles) + Cardinality(userFiles)

\* A script file is written into the project tier (an edit by the project's owner).
WriteProjectFile(p) ==
    /\ p \notin projectFiles
    /\ FileCount < MaxFiles
    /\ projectFiles' = projectFiles \cup {p}
    /\ resolved' = NoResult /\ resolveArgs' = NoCall
    /\ UNCHANGED <<userFiles, registry, registryClient, projectLock, userLock>>
    /\ UNCHANGED <<envVars, runVars, stageVars>>

\* download_to_user_space: writes {category}[/{subcategory}]/{name}.py into the user tier.
DownloadToUserSpace(p) ==
    /\ p \notin userFiles
    /\ FileCount < MaxFiles
    /\ userFiles' = userFiles \cup {p}
    /\ resolved' = NoResult /\ resolveArgs' = NoCall
    /\ UNCHANGED <<projectFiles, registry, registryClient, projectLock, userLock>>
    /\ UNCHANGED <<envVars, runVars, stageVars>>

\* RemoveTool._remove_from_project: script_path.unlink() on a project-tier file.
RemoveFromProject(p) ==
    /\ p \in projectFiles
    /\ projectFiles' = projectFiles \ {p}
    /\ resolved' = NoResult /\ resolveArgs' = NoCall
    /\ UNCHANGED <<userFiles, registry, registryClient, projectLock, userLock>>
    /\ UNCHANGED <<envVars, runVars, stageVars>>

\* RemoveTool._remove_from_user: script_path.unlink() on a user-tier file.
RemoveFromUser(p) ==
    /\ p \in userFiles
    /\ userFiles' = userFiles \ {p}
    /\ resolved' = NoResult /\ resolveArgs' = NoCall
    /\ UNCHANGED <<projectFiles, registry, registryClient, projectLock, userLock>>
    /\ UNCHANGED <<envVars, runVars, stageVars>>

\* One call of resolve_script(script_name, category).
Resolve(name, category) ==
    /\ resolved' \in ResolveScript(name, category)
    /\ resolveArgs' = [name |-> name, category |-> category]
    /\ UNCHANGED tierVars
    /\ UNCHANGED <<envVars, runVars, stageVars>>

(***************************************************************************)
(* EnvManager.ensure_venv, one step per statement that another process     *)
(* can observe or interleave with.                                         *)
(***************************************************************************)
Procs == 1..NumProcs

\* venv_dir.exists() and (venv_dir / "bin" / "python").exists()
VenvExists == venvDir /\ venvPython

FreshEnv ==
    /\ venvDir = FALSE
    /\ venvPython = FALSE
    /\ venvComplete = FALSE
    /\ lockHolder = {}
    /\ lockAcquired = [p \in Procs |-> FALSE]
    /\ envPc = [p \in Procs |-> "idle"]
    /\ envOutcome = [p \in Procs |-> "none"]

\* ensure_venv, first test: the fast path returns venv_dir at once.
EnsureVenv(p) ==
    /\ envPc[p] = "idle"
    /\ IF VenvExists
       THEN /\ envPc' = [envPc EXCEPT ![p] = "returned"]
            /\ envOutcome' = [envOutcome EXCEPT ![p] = "found"]
       ELSE /\ envPc' = [envPc EXCEPT ![p] = "lock"]
            /\ envOutcome' = [envOutcome EXCEPT ![p] = "none"]
    /\ UNCHANGED <<venvDir, venvPython, venvComplete, lockHolder, lockAcquired>>
    /\ UNCHANGED <<tierVars, resolverVars, runVars, stageVars>>

\* A plausible slip: flock(LOCK_EX) without LOCK_NB, which waits for the holder.
LockAttemptWaits(holder, p) == holder \subseteq {p}

\* flock(LOCK_EX | LOCK_NB) returns at once, whoever holds the lock.
LockAttemptReturns(holder, p) == TRUE

\* _acquire_lock: flock(LOCK_EX | LOCK_NB); True when the lock is free, False
\* (BlockingIOError caught) when another process holds it.  The caller goes on
\* to the re-check either way.
AcquireLock(p) ==
    /\ envPc[p] = "lock"
    /\ LockAttemptReturns(lockHolder, p)
    /\ IF lockHolder = {}
       THEN /\ lockHolder' = {p}
            /\ lockAcquired' = [lockAcquired EXCEPT ![p] = TRUE]
       ELSE /\ lockHolder' = lockHolder
            /\ lockAcquired' = [lockAcquired EXCEPT ![p] = FALSE]
    /\ envPc' = [envPc EXCEPT ![p] = "recheck"]
    /\ UNCHANGED <<venvDir, venvPython, venvComplete, envOutcome>>
    /\ UNCHANGED <<tierVars, resolverVars, runVars, stageVars>>

\* The double-check inside the try block.
Recheck(p) ==
    /\ envPc[p] = "recheck"
    /\ IF VenvExists
       THEN /\ envPc' = [envPc EXCEPT ![p] = "release"]
            /\ envOutcome' = [envOutcome EXCEPT ![p] = "found"]
       ELSE /\ envPc' = [envPc EXCEPT ![p] = "create"]
            /\ envOutcome' = envOutcome
    /\ UNCHANGED <<venvDir, venvPython, venvComplete, lockHolder, lockAcquired>>
    /\ UNCHANGED <<tierVars, resolverVars, runVars, stageVars>>

\* The creation starts: parent mkdir, then the "python -m venv" subprocess is started
\* and makes venv_dir.
BeginCreate(p) ==
    /\ envPc[p] = "create"
    /\ venvDir' = TRUE
    /\ envPc' = [envPc EXCEPT ![p] = "venv"]
    /\ UNCHANGED <<venvPython, venvComplete, lockHolder, lockAcquired, envOutcome>>
    /\ UNCHANGED <<tierVars, resolverVars, runVars, stageVars>>

\* The venv subprocess exits with returncode 0: bin/python is in place.
VenvCreated(p) ==
    /\ envPc[p] = "venv"
    /\ venvPython' = TRUE
    /\ envPc' = [envPc EXCEPT ![p] = "upgrade"]
    /\ UNCHANGED <<venvDir, venvComplete, lockHolder, lockAcquired, envOutcome>>
    /\ UNCHANGED <<tierVars, resolverVars, runVars, stageVars>>

\* The venv subprocess exits with returncode != 0: RuntimeError.  What it had
\* written stays on disk; the interpreter link may or may not be among it.
VenvFailed(p) ==
    /\ envPc[p] = "venv"
    /\ venvPython' \in {venvPython, TRUE}
    /\ envPc' = [envPc EXCEPT ![p] = "release"]
    /\ envOutcome' = [envOutcome EXCEPT ![p] = "failed"]
    /\ UNCHANGED <<venvDir, venvComplete, lockHolder, lockAcquired>>
    /\ UNCHANGED <<tierVars, resolverVars, runVars, stageVars>>

\* The "pip install --upgrade pip" subprocess ends (a non-zero exit only logs a
\* warning); ensure_venv is about to return venv_dir.
UpgradePip(p) ==
    /\ envPc[p] = "upgrade"
    /\ venvComplete' = TRUE
    /\ envPc' = [envPc EXCEPT ![p] = "release"]
    /\ envOutcome' = [envOutcome EXCEPT ![p] = "created"]
    /\ UNCHANGED <<venvDir, venvPython, lockHolder, lockAcquired>>
    /\ UNCHANGED <<tierVars, resolverVars, runVars, stageVars>>

\* A plausible slip: the release after the creation instead of in a finally block.
ReleasesOnReturnOnly(p) == lockAcquired[p] /\ envOutcome[p] # "failed"

\* "finally: if lock_acquired: self._release_lock()"
Releases(p) == lockAcquired[p]

\* The finally block: _release_lock when lock_acquired; then the return or the raise.
ReleaseAndLeave(p) ==
    /\ envPc[p] = "release"
    /\ IF Releases(p)
       THEN /\ lockHolder' = lockHolder \ {p}
            /\ lockAcquired' = [lockAcquired EXCEPT ![p] = FALSE]
       ELSE UNCHANGED <<lockHolder, lockAcquired>>
    /\ envPc' = [envPc EXCEPT ![p] = IF envOutcome[p] = "failed" THEN "raised" ELSE "returned"]
    /\ UNCHANGED <<venvDir, venvPython, venvComplete, envOutcome>>
    /\ UNCHANGED <<tierVars, resolverVars, runVars, stageVars>>

\* The call is over; the process may call ensure_venv again (get_python, get_pip,
\* build_subprocess_env all start with it).
CallAgain(p) ==
    /\ envPc[p] \in {"returned", "raised"}
    /\ envPc' = [envPc EXCEPT ![p] = "idle"]
    /\ UNCHANGED <<venvDir, venvPython, venvComplete, lockHolder, lockAcquired, envOutcome>>
    /\ UNCHANGED <<tierVars, resolverVars, runVars, stageVars>>

NextEnv ==
    \E p \in Procs :
        \/ EnsureVenv(p)
        \/ AcquireLock(p)
        \/ Recheck(p)
        \/ BeginCreate(p)
        \/ VenvCreated(p)
        \/ VenvFailed(p)
        \/ UpgradePip(p)
        \/ ReleaseAndLeave(p)
        \/ CallAgain(p)

(***************************************************************************)
(* The dependency stages of RunTool.execute (run.py:1129-1202) with their  *)
(* data: library verification, the merge of file and registry             *)
(* dependencies, the import probes and the pip installs.                   *)
(***************************************************************************)
MaxDeps == 2

LibNames == {"http_session", "utils"}

\* Package names as the script file yields them (MODULE_TO_PACKAGE already applied).
PkgNames == {"requests", "PyYAML"}

\* What a "name" field of a registry dependency can hold: a package or module name,
\* null, a non-string, or a JSON-encoded string.
NotAString == "<42>"
JsonEncoded == "{\"name\": \"requests\"}"
NameValues == {"requests", "yaml", None, NotAString, JsonEncoded}

VersionValues == {None, ">=2.0", NotAString}

\* An element of the registry's dependency list: a dict, or something else.
RegistryEntries == [kind : {"dict"}, name : NameValues, version : VersionValues]
                       \cup {[kind |-> "str", name |-> None, version |-> None]}

SeqsUpTo(S, n) == UNION {[1..k -> S] : k \in 0..n}

\* The row's "dependencies" value: a list, or a value of another JSON type
\* (truthy or falsy in Python: {} "" 0 null are falsy).
RegistryDepValues ==
    [kind : {"list"}, truthy : {TRUE}, items : SeqsUpTo(RegistryEntries, MaxDeps) \ {<<>>}]
        \cup {[kind |-> "list", truthy |-> FALSE, items |-> <<>>]}
        \cup [kind : {"null"}, truthy : {FALSE}, items : {<<>>}]
        \cup [kind : {"dict", "str", "int"}, truthy : BOOLEAN, items : {<<>>}]

\* extract_script_metadata's "dependencies": one entry per distinct import, version None.
FileDepLists ==
    {d \in SeqsUpTo([name : PkgNames, version : {None}], MaxDeps) :
        \A i, j \in DOMAIN d : i # j => d[i].name # d[j].name}

\* MODULE_TO_PACKAGE.get(name, name)
ModuleToPackage(name) == IF name = "yaml" THEN "PyYAML" ELSE name

IsString(x) == x \notin {None, NotAString}

\* _validate_dependencies raises ValueError on its argument.
ValidationFails(v) ==
    \/ v.kind # "list"
    \/ \E i \in DOMAIN v.items :
         LET dep == v.items[i]
         IN  \/ dep.kind # "dict"
             \/ ~IsString(dep.name)
             \/ dep.name = JsonEncoded
             \/ (dep.version # None /\ ~IsString(dep.version))

\* _validate_dependencies' return value.
ValidateDependencies(v) ==
    [i \in DOMAIN v.items |-> [name |-> v.items[i].name, version |-> v.items[i].version]]

NamesOf(deps) == {deps[i].name : i \in DOMAIN deps}

\* The merge loop of execute: existing_names is taken from the file's entries once;
\* each validated registry entry is renamed by MODULE_TO_PACKAGE and appended when its
\* name is not among them.
MergeDependencies(fileDeps, registryDeps) ==
    LET existing_names == NamesOf(fileDeps)
        mapped == [i \in DOMAIN registryDeps |->
                     [name |-> ModuleToPackage(registryDeps[i].name),
                      version |-> registryDeps[i].version]]
        Fresh(d) == d.name \notin existing_names
    IN  fileDeps \o SelectSeq(mapped, Fresh)

\* _verify_lib_dependencies: a name is found when {name}.py is in .ai/scripts/lib
\* below the current working directory, or in the user tier's scripts/lib.
VerifyLibDependencies(required, cwdLibs, userLibs) ==
    {l \in required : l \notin cwdLibs /\ l \notin userLibs}

\* _check_pip_dependencies: the entries whose module cannot be imported.
CheckPipDependencies(deps, importable) ==
    LET Missing(d) == d.name \notin importable
    IN  SelectSeq(deps, Missing)

PipOutcomes == {"ok", "nonzero", "timeout", "exception"}

\* _install_pip_dependencies: pip runs once per package, in order, whatever the
\* earlier ones did.
InstallPipDependencies(packages, outcome) ==
    LET Ok(d) == outcome[d.name] = "ok"
        NotOk(d) == outcome[d.name] # "ok"
        installed == SelectSeq(packages, Ok)
        failed == SelectSeq(packages, NotOk)
    IN  [status |-> IF failed = <<>> THEN "success"
                    ELSE IF installed # <<>> THEN "partial" ELSE "error",
         installed |-> installed,
         failed |-> failed]

\* A plausible slip: only a total failure stops the run.
InstallIsFatalOnlyWhenTotal(result) == result.status = "error"

\* "if install_result.get('failed'):"
InstallIsFatal(result) == result.failed # <<>>

NoLibIn == [required |-> {}, project |-> {}, cwd |-> {}, user |-> {}]
NoMergeIn == [file |-> <<>>, registry |-> [kind |-> "null", truthy |-> FALSE, items |-> <<>>]]
NoPipIn == [missing |-> <<>>, outcome |-> <<>>]
NoDepResponse == [status |-> None, code |-> None, error_type |-> None, missing_libs |-> {},
                  installed |-> <<>>, failed |-> <<>>, suggestion |-> None]

IdleDeps ==
    /\ depPc = "idle"
    /\ libIn = NoLibIn
    /\ mergeIn = NoMergeIn
    /\ pipDeps = <<>>
    /\ pipIn = NoPipIn
    /\ depDid = [probed |-> FALSE, installed |-> FALSE]
    /\ depResponse = NoDepResponse

\* execute reaches the library verification for a registry row: its required_libs,
\* the lib/ directory of the project being run, the one below the current working
\* directory (the same directory unless project_path names another project), and
\* the user tier's.
BeginDeps ==
    /\ depPc = "idle"
    /\ \E required \in SUBSET LibNames, project \in SUBSET LibNames,
          cwd \in SUBSET LibNames, user \in SUBSET LibNames, projectIsCwd \in BOOLEAN :
         /\ projectIsCwd => cwd = project
         /\ libIn' = [required |-> required, project |-> project, cwd |-> cwd, user |-> user]
    /\ depPc' = "libs"
    /\ UNCHANGED <<mergeIn, pipDeps, pipIn, depDid, depResponse>>
    /\ UNCHANGED <<tierVars, resolverVars, envVars, runVars, faultVars, procVars, funcVars, laterVars>>

\* "if required_libs: verification = ...; if verification.get('error'): return".
VerifyLibsStage ==
    /\ depPc = "libs"
    /\ LET missing_libs == VerifyLibDependencies(libIn.required, libIn.cwd, libIn.user)
       IN  IF libIn.required # {} /\ missing_libs # {}
           THEN /\ depResponse' = [NoDepResponse EXCEPT !.code = "MISSING_DEPENDENCIES",
                                                        !.missing_libs = missing_libs]
                /\ depPc' = "returned"
           ELSE /\ depResponse' = depResponse
                /\ depPc' = "merge"
    /\ UNCHANGED <<libIn, mergeIn, pipDeps, pipIn, depDid>>
    /\ UNCHANGED <<tierVars, resolverVars, envVars, runVars, faultVars, procVars, funcVars, laterVars>>

\* The file's dependencies are extracted; a truthy registry value is validated
\* (ValueError answers metadata_corruption) and merged into them.
MergeStage ==
    /\ depPc = "merge"
    /\ \E file \in FileDepLists, reg \in RegistryDepValues :
         /\ mergeIn' = [file |-> file, registry |-> reg]
         /\ IF ~reg.truthy
            THEN /\ pipDeps' = file
                 /\ depPc' = "probe"
                 /\ depResponse' = depResponse
            ELSE IF ValidationFails(reg)
            THEN /\ pipDeps' = file
                 /\ depPc' = "returned"
                 /\ depResponse' = [NoDepResponse EXCEPT !.status = "error",
                                                         !.error_type = "metadata_corruption",
                                                         !.suggestion = "republish"]
            ELSE /\ pipDeps' = MergeDependencies(file, ValidateDependencies(reg))
                 /\ depPc' = "probe"
                 /\ depResponse' = depResponse
    /\ libIn' = NoLibIn
    /\ UNCHANGED <<pipIn, depDid>>
    /\ UNCHANGED <<tierVars, resolverVars, envVars, runVars, faultVars, procVars, funcVars, laterVars>>

\* "if pip_dependencies: missing_deps = self._check_pip_dependencies(...)".
ProbeStage ==
    /\ depPc = "probe"
    /\ IF pipDeps = <<>>
       THEN /\ depPc' = "proceed"
            /\ UNCHANGED <<pipIn, depDid>>
       ELSE \E importable \in SUBSET PkgNames :
              LET missing_deps == CheckPipDependencies(pipDeps, importable)
              IN  /\ depDid' = [depDid EXCEPT !.probed = TRUE]
                  /\ pipIn' = [missing |-> missing_deps, outcome |-> <<>>]
                  /\ depPc' = IF missing_deps = <<>> THEN "proceed" ELSE "install"
    /\ UNCHANGED <<libIn, mergeIn, pipDeps, depResponse>>
    /\ UNCHANGED <<tierVars, resolverVars, envVars, runVars, faultVars, procVars, funcVars, laterVars>>

\* The installs and the test of their result.
InstallStage ==
    /\ depPc = "install"
    /\ \E outcome \in [NamesOf(pipIn.missing) -> PipOutcomes] :
         LET install_result == InstallPipDependencies(pipIn.missing, outcome)
         IN  /\ pipIn' = [pipIn EXCEPT !.outcome = outcome]
             /\ IF InstallIsFatal(install_result)
                THEN /\ depPc' = "returned"
                     /\ depResponse' = [NoDepResponse EXCEPT
                                          !.status = "error",
                                          !.error_type = "dependency_error",
                                          !.installed = install_result.installed,
                                          !.failed = install_result.failed]
                ELSE /\ depPc' = "proceed"
                     /\ depResponse' = depResponse
    /\ depDid' = [depDid EXCEPT !.installed = TRUE]
    /\ UNCHANGED <<libIn, mergeIn, pipDeps>>
    /\ UNCHANGED <<tierVars, resolverVars, envVars, runVars, faultVars, procVars, funcVars, laterVars>>

NextDeps ==
    \/ BeginDeps
    \/ VerifyLibsStage
    \/ MergeStage
    \/ ProbeStage
    \/ InstallStage

(***************************************************************************)
(* RunTool._run_argparse_script: the subprocess, its two pipes, the        *)
(* readers of the parent's ends, and the parent's wait (run.py:613-740,    *)
(* 971-984).                                                               *)
(***************************************************************************)
PipeCap == 1
MaxOutput == 2

DefaultTimeout == 300
MaxTimeout == 1800

Streams == {"out", "err"}

\* script_params.pop("_timeout", None): absent, or a number of seconds.
NoTimeout == [given |-> FALSE, sec |-> 0]
Timeouts == {NoTimeout} \cup [given : {TRUE}, sec : {0, 1, 1800, 3600}]

\* The instants at which the model looks at the clock.
Instants == {0, 1, 300, 1800, 3600}

Min(a, b) == IF a <= b THEN a ELSE b

\* A plausible slip: the requested timeout is used as it is.
UncappedTimeout(t) == t

\* "timeout = min(timeout, 1800)"
CappedTimeout(t) == Min(t, MaxTimeout)

\* The local timeout after run.py:614-616.
EffectiveTimeout(t) == CappedTimeout(IF t.given THEN t.sec ELSE DefaultTimeout)

ProcInputs == [timeout : Timeouts, stream_logs : BOOLEAN,
               plan : [Streams -> 0..MaxOutput], lingering : BOOLEAN]

NoProcIn == [timeout |-> NoTimeout, stream_logs |-> FALSE,
             plan |-> [s \in Streams |-> 0], lingering |-> FALSE]

NoProcResult == [status |-> None, timedOut |-> FALSE]

IdleProc ==
    /\ procIn = NoProcIn
    /\ clock = 0
    /\ child = "notstarted"
    /\ written = [s \in Streams |-> 0]
    /\ pipe = [s \in Streams |-> 0]
    /\ reader = [s \in Streams |-> "idle"]
    /\ parentPc = "idle"
    /\ procResult = NoProcResult

Deadline == EffectiveTimeout(procIn.timeout)

\* The subprocess wants to write to s and the pipe buffer of s is full.
BlockedOn(s) == child = "running" /\ written[s] < procIn.plan[s] /\ pipe[s] = PipeCap

\* Popen (stream_logs) or subprocess.run: the subprocess starts with both pipes, and
\* both are read from then on, by the two reader threads or by communicate().  A
\* failure to start (mkdir of the runs directory, Popen) is caught and returned.
StartProcess ==
    /\ parentPc = "start"
    /\ \E startFails \in BOOLEAN :
         IF startFails
         THEN /\ parentPc' = "returned"
              /\ procResult' = [status |-> "error", timedOut |-> FALSE]
              /\ UNCHANGED <<child, reader>>
         ELSE /\ parentPc' = "wait"
              /\ child' = "running"
              /\ reader' = [s \in Streams |-> "running"]
              /\ procResult' = procResult
    /\ UNCHANGED <<procIn, clock, written, pipe>>
    /\ UNCHANGED <<tierVars, resolverVars, envVars, runVars, depVars, faultVars, funcVars, laterVars>>

\* The script writes to stdout or stderr; the write needs room in the pipe.
ChildWrite(s) ==
    /\ child = "running"
    /\ written[s] < procIn.plan[s]
    /\ pipe[s] < PipeCap
    /\ written' = [written EXCEPT ![s] = @ + 1]
    /\ pipe' = [pipe EXCEPT ![s] = @ + 1]
    /\ UNCHANGED <<procIn, clock, child, reader, parentPc, procResult>>
    /\ UNCHANGED <<tierVars, resolverVars, envVars, runVars, depVars, faultVars, funcVars, laterVars>>

\* The script exits once it has written what it had to write.
ChildExit ==
    /\ child = "running"
    /\ \A s \in Streams : written[s] = procIn.plan[s]
    /\ child' = "exited"
    /\ UNCHANGED <<procIn, clock, written, pipe, reader, parentPc, procResult>>
    /\ UNCHANGED <<tierVars, resolverVars, envVars, runVars, depVars, faultVars, funcVars, laterVars>>

\* read_stderr / read_stdout (threads), or communicate() while the parent is in it:
\* what is in the pipe is taken out.
Drain(s) ==
    /\ reader[s] = "running"
    /\ procIn.stream_logs \/ parentPc = "wait"
    /\ pipe[s] > 0
    /\ pipe' = [pipe EXCEPT ![s] = @ - 1]
    /\ UNCHANGED <<procIn, clock, child, written, reader, parentPc, procResult>>
    /\ UNCHANGED <<tierVars, resolverVars, envVars, runVars, depVars, faultVars, funcVars, laterVars>>

\* End of file on the parent's end: the pipe is empty and every write end is closed
\* (the subprocess is gone and no descendant holds the pipe).
ReaderEof(s) ==
    /\ reader[s] = "running"
    /\ procIn.stream_logs \/ parentPc = "wait"
    /\ pipe[s] = 0
    /\ child \in {"exited", "killed"}
    /\ ~procIn.lingering
    /\ reader' = [reader EXCEPT ![s] = "done"]
    /\ UNCHANGED <<procIn, clock, child, written, pipe, parentPc, procResult>>
    /\ UNCHANGED <<tierVars, resolverVars, envVars, runVars, depVars, faultVars, funcVars, laterVars>>

\* "except Exception" in read_stderr / read_stdout: a read that raises (output that
\* does not decode) ends the reader thread while the subprocess may still be writing.
ReaderDies(s) ==
    /\ reader[s] = "running"
    /\ procIn.stream_logs
    /\ reader' = [reader EXCEPT ![s] = "dead"]
    /\ UNCHANGED <<procIn, clock, child, written, pipe, parentPc, procResult>>
    /\ UNCHANGED <<tierVars, resolverVars, envVars, runVars, depVars, faultVars, funcVars, laterVars>>

\* Time passes while the parent waits; the wait's timeout fires no later than its
\* deadline.
Tick ==
    /\ parentPc = "wait"
    /\ \E t \in Instants :
         /\ clock < t /\ t <= Deadline
         /\ clock' = t
    /\ UNCHANGED <<procIn, child, written, pipe, reader, parentPc, procResult>>
    /\ UNCHANGED <<tierVars, resolverVars, envVars, runVars, depVars, faultVars, funcVars, laterVars>>

\* process.wait(timeout=timeout) returns: the subprocess has exited.
WaitReturns ==
    /\ parentPc = "wait"
    /\ procIn.stream_logs
    /\ child = "exited"
    /\ parentPc' = "join_stderr"
    /\ UNCHANGED <<procIn, clock, child, written, pipe, reader, procResult>>
    /\ UNCHANGED <<tierVars, resolverVars, envVars, runVars, depVars, faultVars, funcVars, laterVars>>

\* process.wait raises TimeoutExpired: process.kill(), re-raise, and the handler at
\* run.py:971 returns the timeout error.
WaitTimesOut ==
    /\ parentPc = "wait"
    /\ procIn.stream_logs
    /\ child = "running"
    /\ clock >= Deadline
    /\ child' = "killed"
    /\ parentPc' = "returned"
    /\ procResult' = [status |-> "error", timedOut |-> TRUE]
    /\ UNCHANGED <<procIn, clock, written, pipe, reader>>
    /\ UNCHANGED <<tierVars, resolverVars, envVars, runVars, depVars, faultVars, funcVars, laterVars>>

\* A plausible slip: join() without a timeout.
JoinWaitsForThread(s) == reader[s] = "done"

\* thread.join(timeout=...) returns when the thread has finished or the time is up.
JoinReturns(s) == TRUE

\* stderr_thread.join(timeout=2)
JoinStderr ==
    /\ parentPc = "join_stderr"
    /\ JoinReturns("err")
    /\ parentPc' = "join_stdout"
    /\ UNCHANGED <<procIn, clock, child, written, pipe, reader, procResult>>
    /\ UNCHANGED <<tierVars, resolverVars, envVars, runVars, depVars, faultVars, funcVars, laterVars>>

\* stdout_thread.join(timeout=10), then the output is parsed into the result.
JoinStdout ==
    /\ parentPc = "join_stdout"
    /\ JoinReturns("out")
    /\ parentPc' = "returned"
    /\ \E status \in {"success", "error"} :
         procResult' = [status |-> status, timedOut |-> FALSE]
    /\ UNCHANGED <<procIn, clock, child, written, pipe, reader>>
    /\ UNCHANGED <<tierVars, resolverVars, envVars, runVars, depVars, faultVars, funcVars, laterVars>>

\* subprocess.run returns: the subprocess has exited and both pipes are at end of
\* file; the output is parsed into the result.
CommunicateReturns ==
    /\ parentPc = "wait"
    /\ ~procIn.stream_logs
    /\ child = "exited"
    /\ \A s \in Streams : reader[s] = "done"
    /\ parentPc' = "returned"
    /\ \E status \in {"success", "error"} :
         procResult' = [status |-> status, timedOut |-> FALSE]
    /\ UNCHANGED <<procIn, clock, child, written, pipe, reader>>
    /\ UNCHANGED <<tierVars, resolverVars, envVars, runVars, depVars, faultVars, funcVars, laterVars>>

\* subprocess.run raises TimeoutExpired after killing the subprocess.
CommunicateTimesOut ==
    /\ parentPc = "wait"
    /\ ~procIn.stream_logs
    /\ clock >= Deadline
    /\ ~(child = "exited" /\ \A s \in Streams : reader[s] = "done")
    /\ child' = IF child = "running" THEN "killed" ELSE child
    /\ parentPc' = "returned"
    /\ procResult' = [status |-> "error", timedOut |-> TRUE]
    /\ UNCHANGED <<procIn, clock, written, pipe, reader>>
    /\ UNCHANGED <<tierVars, resolverVars, envVars, runVars, depVars, faultVars, funcVars, laterVars>>

ParentStep ==
    \/ StartProcess
    \/ WaitReturns
    \/ WaitTimesOut
    \/ JoinStderr
    \/ JoinStdout
    \/ CommunicateReturns
    \/ CommunicateTimesOut

NextProc ==
    \/ StartProcess
    \/ \E s \in Streams : ChildWrite(s)
    \/ ChildExit
    \/ \E s \in Streams : Drain(s)
    \/ \E s \in Streams : ReaderEof(s)
    \/ \E s \in Streams : ReaderDies(s)
    \/ Tick
    \/ WaitReturns
    \/ WaitTimesOut
    \/ JoinStderr
    \/ JoinStdout
    \/ CommunicateReturns
    \/ CommunicateTimesOut

(***************************************************************************)
(* RunTool._run_function_script: sys.stderr and the logging handlers that  *)
(* write to it are pointed at a DualStderr for the call (run.py:390-525).  *)
(***************************************************************************)
MaxHandlers == 2
MaxVisits == 3

\* The logging.StreamHandler objects registered with the logging module.
Handlers == 1..MaxHandlers

\* What a handler's stream, or sys.stderr, can be.
HandlerStreams == {"original_stderr", "logfile", None}

\* The handlers in the order the two loops meet them; a handler attached to several
\* loggers is met once per logger.
VisitOrders == SeqsUpTo(Handlers, MaxVisits)

FuncInputs == [stream_logs : BOOLEAN, visits : VisitOrders,
               streams : [Handlers -> HandlerStreams]]

NoFuncIn == [stream_logs |-> FALSE, visits |-> <<>>,
             streams |-> [h \in Handlers |-> None]]

IdleFunc ==
    /\ funcPc = "idle"
    /\ funcIn = NoFuncIn
    /\ sysStderr = "original_stderr"
    /\ handlerStream = [h \in Handlers |-> None]
    /\ handlerBefore = [h \in Handlers |-> None]
    /\ updatedHandlers = <<>>
    /\ loopIx = 1

\* What func(script_params) can do.
CallOutcomes == {"return", "ImportError", "Exception"}

\* "handler.stream == original_stderr or handler.stream == sys.stderr", sys.stderr
\* being the DualStderr by then.
UsesStderr(h) == handlerStream[h] \in {"original_stderr", sysStderr}

\* The finally block's loop: every recorded handler gets original_stderr back.
RECURSIVE RestoreHandlers(_, _)
RestoreHandlers(streams, updated) ==
    IF updated = <<>> THEN streams
    ELSE RestoreHandlers([streams EXCEPT ![Head(updated)] = "original_stderr"],
                         Tail(updated))

\* run.py:411-482.  Without stream_logs the function is called as it is.  With it,
\* the runs directory is made (which may raise) and sys.stderr is replaced.
FuncStart ==
    /\ funcPc = "start"
    /\ IF ~funcIn.stream_logs
       THEN /\ \E outcome \in CallOutcomes :
                 funcPc' = IF outcome = "return" THEN "returned" ELSE "raised"
            /\ UNCHANGED sysStderr
       ELSE \E mkdirFails \in BOOLEAN :
              IF mkdirFails
              THEN funcPc' = "raised" /\ UNCHANGED sysStderr
              ELSE funcPc' = "handlers" /\ sysStderr' = "dual_stderr"
    /\ UNCHANGED <<funcIn, handlerStream, handlerBefore, updatedHandlers, loopIx>>
    /\ UNCHANGED <<tierVars, resolverVars, envVars, runVars, depVars, faultVars, procVars, laterVars>>

\* run.py:488-505, one handler of the two loops.  The loops stand before the try: an
\* exception in them (the logger dictionary changing size under the iteration, an
\* interrupt) leaves the function at once.
UpdateHandler ==
    /\ funcPc = "handlers"
    /\ loopIx <= Len(funcIn.visits)
    /\ \E raises \in BOOLEAN :
         IF raises
         THEN /\ funcPc' = "raised"
              /\ UNCHANGED <<handlerStream, updatedHandlers, loopIx>>
         ELSE LET h == funcIn.visits[loopIx] IN
              /\ IF UsesStderr(h)
                 THEN /\ handlerStream' = [handlerStream EXCEPT ![h] = "dual_stderr"]
                      /\ updatedHandlers' = Append(updatedHandlers, h)
                 ELSE UNCHANGED <<handlerStream, updatedHandlers>>
              /\ loopIx' = loopIx + 1
              /\ funcPc' = funcPc
    /\ UNCHANGED <<funcIn, sysStderr, handlerBefore>>
    /\ UNCHANGED <<tierVars, resolverVars, envVars, runVars, depVars, faultVars, procVars, laterVars>>

\* run.py:507-515: func(script_params) inside the try; ImportError becomes RuntimeError.
\* The script may itself have put something else in sys.stderr.
CallFunc ==
    /\ funcPc = "handlers"
    /\ loopIx > Len(funcIn.visits)
    /\ \E outcome \in CallOutcomes :
         funcPc' = IF outcome = "return" THEN "finally_return" ELSE "finally_raise"
    /\ \E meddles \in BOOLEAN :
         sysStderr' = IF meddles THEN "script_stream" ELSE sysStderr
    /\ UNCHANGED <<funcIn, handlerStream, handlerBefore, updatedHandlers, loopIx>>
    /\ UNCHANGED <<tierVars, resolverVars, envVars, runVars, depVars, faultVars, procVars, laterVars>>

\* run.py:516-525: the finally block, then the return or the exception goes on.
Finally ==
    /\ funcPc \in {"finally_return", "finally_raise"}
    /\ sysStderr' = "original_stderr"
    /\ handlerStream' = RestoreHandlers(handlerStream, updatedHandlers)
    /\ funcPc' = IF funcPc = "finally_return" THEN "returned" ELSE "raised"
    /\ UNCHANGED <<funcIn, handlerBefore, updatedHandlers, loopIx>>
    /\ UNCHANGED <<tierVars, resolverVars, envVars, runVars, depVars, faultVars, procVars, laterVars>>

NextFunc ==
    \/ FuncStart
    \/ UpdateHandler
    \/ CallFunc
    \/ Finally

(***************************************************************************)
(* truncate_large_response (run.py:30-85), applied to a payload and then   *)
(* to its own result.                                                      *)
(***************************************************************************)
MaxLen == 2
MaxCap == 2

MAX_STRING_LENGTH == 10000

\* A JSON value: a number, a string (its length, and the count its truncation note
\* reports, 0 for a string that carries no note), a list or a dict.  A dict is the
\* sequence of its values in key order; its keys never change.
IntValue == [kind |-> "int", items |-> <<>>, len |-> 0, cut |-> 0]
StrValue(n) == [kind |-> "str", items |-> <<>>, len |-> n, cut |-> 0]
ListValue(s) == [kind |-> "list", items |-> s, len |-> 0, cut |-> 0]
DictValue(s) == [kind |-> "dict", items |-> s, len |-> 0, cut |-> 0]

Leaves == {IntValue, StrValue(MAX_STRING_LENGTH), StrValue(MAX_STRING_LENGTH + 1)}

InnerValues == Leaves \cup {ListValue(s) : s \in SeqsUpTo({IntValue, StrValue(MAX_STRING_LENGTH + 1)}, MaxLen)}

Payloads == {ListValue(s) : s \in SeqsUpTo(InnerValues, MaxLen)}
            \cup {DictValue(s) : s \in SeqsUpTo(InnerValues, MaxLen)}

Caps == 0..MaxCap

\* The number of decimal digits of k.
Digits(k) == IF k < 10 THEN 1 ELSE IF k < 100 THEN 2 ELSE IF k < 1000 THEN 3 ELSE 4

\* len("\n... (truncated ") + the digits of k + len(" more characters)")
NoteLength(k) == 16 + Digits(k) + 17

\* truncate_large_response(data, max_items)[0], max_string at its default.  A list
\* longer than max_items is cut to data[:max_items] and returned at once, its items
\* as they are; a list within the cap has every item truncated in turn.
RECURSIVE TruncateLargeResponse(_, _)
TruncateLargeResponse(data, max_items) ==
    CASE data.kind = "dict" ->
           [data EXCEPT !.items = [i \in 1..Len(data.items) |->
                                     TruncateLargeResponse(data.items[i], max_items)]]
      [] data.kind = "list" ->
           IF Len(data.items) > max_items
           THEN [data EXCEPT !.items = SubSeq(data.items, 1, max_items)]
           ELSE [data EXCEPT !.items = [i \in 1..Len(data.items) |->
                                          TruncateLargeResponse(data.items[i], max_items)]]
      [] data.kind = "str" ->
           IF data.len > MAX_STRING_LENGTH
           THEN [data EXCEPT !.len = MAX_STRING_LENGTH + NoteLength(data.len - MAX_STRING_LENGTH),
                             !.cut = data.len - MAX_STRING_LENGTH]
           ELSE data
      [] OTHER -> data

NoTruncIn == [data |-> IntValue, max_items |-> 0]

IdleTrunc ==
    /\ truncPc = "idle"
    /\ truncIn = NoTruncIn
    /\ truncOnce = IntValue
    /\ truncTwice = IntValue

\* truncate(d, n)
TruncateOnce ==
    /\ truncPc = "input"
    /\ truncOnce' = TruncateLargeResponse(truncIn.data, truncIn.max_items)
    /\ truncPc' = "once"
    /\ UNCHANGED <<truncIn, truncTwice>>
    /\ UNCHANGED allButTrunc

\* truncate(truncate(d, n), n)
TruncateAgain ==
    /\ truncPc = "once"
    /\ truncTwice' = TruncateLargeResponse(truncOnce, truncIn.max_items)
    /\ truncPc' = "twice"
    /\ UNCHANGED <<truncIn, truncOnce>>
    /\ UNCHANGED allButTrunc

NextTrunc ==
    \/ TruncateOnce
    \/ TruncateAgain

(***************************************************************************)
(* The result of a script on its way to the response and to the result     *)
(* file: the parsing of a subprocess's output (run.py:742-968) and the     *)
(* result shaping of RunTool.execute (run.py:1344-1601).                   *)
(***************************************************************************)
MAX_ARRAY_ITEMS == 1000
MAX_RESPONSE_SIZE_BYTES == 1000000
PreviewItems == 5

\* A JSON value.  A string is its text; a list is the number of its items, the bytes
\* each item takes when serialized, and the number of items a preview dropped from
\* it (0 for a list that is no preview); a dict is a function from its keys.
JNull == [kind |-> "null", text |-> "", len |-> 0, each |-> 0, cut |-> 0, sub |-> <<>>]
JNum == [kind |-> "num", text |-> "", len |-> 0, each |-> 0, cut |-> 0, sub |-> <<>>]
JText(s) == [kind |-> "str", text |-> s, len |-> 0, each |-> 0, cut |-> 0, sub |-> <<>>]
JList(n, b) == [kind |-> "list", text |-> "", len |-> n, each |-> b, cut |-> 0, sub |-> <<>>]
JDict(f) == [kind |-> "dict", text |-> "", len |-> 0, each |-> 0, cut |-> 0, sub |-> f]

EmptyDict == JDict(<<>>)

\* {key: value}
Only(key, value) == JDict([k \in {key} |-> value])

IsDict(v) == v.kind = "dict"

\* Python's truth value of a JSON value.
Truthy(v) ==
    CASE v.kind = "null" -> FALSE
      [] v.kind = "num" -> TRUE
      [] v.kind = "str" -> v.text # ""
      [] v.kind = "list" -> v.len > 0
      [] OTHER -> DOMAIN v.sub # {}

Has(d, key) == key \in DOMAIN d.sub

\* d.get(key)
Get(d, key) == IF Has(d, key) THEN d.sub[key] ELSE JNull

\* {k: v for k, v in d.items() if k not in keys}
Without(d, keys) == JDict([k \in DOMAIN d.sub \ keys |-> d.sub[k]])

\* {**a, **b}
Merged2(a, b) ==
    JDict([k \in DOMAIN a.sub \cup DOMAIN b.sub |-> IF Has(b, k) THEN b.sub[k] ELSE a.sub[k]])

\* len(json.dumps(v, default=str)), to the precision the byte cap needs.
RECURSIVE SerializedSize(_), SizeOfItems(_, _)
SerializedSize(v) ==
    CASE v.kind = "null" -> 4
      [] v.kind = "num" -> 1
      [] v.kind = "str" -> 10
      [] v.kind = "list" -> 2 + v.len * v.each
      [] OTHER -> 2 + SizeOfItems(v.sub, DOMAIN v.sub)
SizeOfItems(f, keys) ==
    IF keys = {} THEN 0
    ELSE LET k == CHOOSE x \in keys : TRUE
         IN  10 + SerializedSize(f[k]) + SizeOfItems(f, keys \ {k})

\* The longest list found anywhere in a value.
RECURSIVE LongestList(_), LongestIn(_, _)
LongestList(v) ==
    CASE v.kind = "list" -> v.len
      [] v.kind = "dict" -> LongestIn(v.sub, DOMAIN v.sub)
      [] OTHER -> 0
LongestIn(f, keys) ==
    IF keys = {} THEN 0
    ELSE LET k == CHOOSE x \in keys : TRUE
             a == LongestList(f[k])
             b == LongestIn(f, keys \ {k})
         IN  IF a >= b THEN a ELSE b

\* What a script can hand back as its data.
SmallList == JList(2, 10)
LongList == JList(2 * MAX_ARRAY_ITEMS, 10)
HugeList == JList(2 * MAX_ARRAY_ITEMS, 1000)
DataValues ==
    { JNull, EmptyDict, Only("x", JNum), Only("items", LongList), Only("items", HugeList),
      JDict([k \in {"x", "rows"} |-> IF k = "x" THEN JNum ELSE JList(PreviewItems + 1, 10)]),
      LongList }

\* A dict from the keys that are given a value; Absent marks a key left out.
Absent == [kind |-> "absent", text |-> "", len |-> 0, each |-> 0, cut |-> 0, sub |-> <<>>]
DictOf(f) == JDict([k \in {x \in DOMAIN f : f[x] # Absent} |-> f[k]])

\* What a script can return (a function) or print as JSON (a subprocess).
ScriptValues ==
    { JNull, LongList } \cup
    { DictOf([k \in {"status", "data", "metadata", "items", "query"} |->
                CASE k = "status" -> st
                  [] k = "data" -> da
                  [] k = "metadata" -> md
                  [] k = "items" -> IF extra THEN SmallList ELSE Absent
                  [] OTHER -> IF extra THEN JText("q") ELSE Absent]) :
        st \in {Absent, JText("success"), JText("error"), JText("partial_success")},
        da \in DataValues \cup {Absent},
        md \in {Absent, Only("duration_sec", JNum)},
        extra \in BOOLEAN }

\* The metadata of a result built by _run_argparse_script.
RunnerMetadata == JDict([k \in {"duration_sec", "cost_usd"} |->
                           IF k = "duration_sec" THEN JNull ELSE JNum])

\* The first of businesses, items, results, data that d holds with a truthy value.
FirstDataField(d) ==
    CASE Truthy(Get(d, "businesses")) -> "businesses"
      [] Truthy(Get(d, "items")) -> "items"
      [] Truthy(Get(d, "results")) -> "results"
      [] Truthy(Get(d, "data")) -> "data"
      [] OTHER -> None

\* run.py:742-968, for a stdout that is JSON text: json_output is the parsed stdout.
\* The branch that would copy the parsed fields into the data and truncate them
\* (run.py:852-909) stands under "elif output", reached only when json_output is
\* falsy, where the parsed value is no dict with a status: the data starts empty.
ParseArgparseOutput(json_output, hasStderr, returncode) ==
    IF Truthy(json_output) /\ IsDict(json_output) /\ Get(json_output, "status") = JText("error")
    THEN JDict([k \in {"status", "error", "message", "data", "metadata"} |->
                  CASE k = "status" -> JText("error")
                    [] k = "error" -> IF Has(json_output, "error")
                                      THEN json_output.sub["error"] ELSE JText("unknown")
                    [] k = "message" -> IF Has(json_output, "message")
                                        THEN json_output.sub["message"] ELSE JText("")
                    [] k = "data" -> json_output
                    [] OTHER -> RunnerMetadata])
    ELSE IF returncode # 0 /\ ~Truthy(json_output)
    THEN JDict([k \in {"status", "error", "data", "metadata"} |->
                  CASE k = "status" -> JText("error")
                    [] k = "error" -> JText("error_msg")
                    [] k = "data" -> JNull
                    [] OTHER -> RunnerMetadata])
    ELSE LET parsedData == IF Truthy(json_output) THEN EmptyDict ELSE json_output
             withStderr == IF hasStderr
                           THEN Merged2(IF Truthy(parsedData) THEN parsedData ELSE EmptyDict,
                                        Only("_stderr", JText("stderr_output")))
                           ELSE parsedData
             field == FirstDataField(json_output)
             special == IF Truthy(withStderr) THEN withStderr
                        ELSE IF IsDict(json_output) /\ field # None
                             THEN Only(field, json_output.sub[field])
                        ELSE IF IsDict(json_output) /\ Truthy(json_output) THEN json_output
                        ELSE withStderr
             data == IF Truthy(special) THEN special
                     ELSE JDict([k \in {"_stdout", "_stdout_length", "_is_json"} |->
                                   IF k = "_stdout" THEN JText("output") ELSE JNum])
             answer == [k \in {"status", "data", "metadata"} |->
                          CASE k = "status" -> JText("success")
                            [] k = "data" -> data
                            [] OTHER -> RunnerMetadata]
         IN  IF hasStderr THEN Merged2(JDict(answer), Only("logs", JList(1, 10)))
             ELSE JDict(answer)

\* run.py:1345-1387: script_status.
ScriptStatusOf(result) ==
    IF Truthy(result) /\ IsDict(result)
    THEN IF Has(result, "status") THEN result.sub["status"] ELSE JText("success")
    ELSE JText("success")

\* run.py:1345-1387: result_data.
ResultDataOf(result) ==
    IF ~(Truthy(result) /\ IsDict(result)) THEN JNull
    ELSE IF ScriptStatusOf(result) = JText("error")
    THEN Without(result, {"status", "metadata"})
    ELSE LET data == IF Get(result, "data") # JNull THEN Get(result, "data")
                     ELSE Without(result, {"status", "metadata", "logs"})
         IN  IF Truthy(data) THEN data
             ELSE IF Has(result, "businesses") THEN Only("businesses", result.sub["businesses"])
             ELSE IF Has(result, "items") THEN Only("items", result.sub["items"])
             ELSE IF Has(result, "results") THEN Only("results", result.sub["results"])
             ELSE IF Has(result, "data") THEN Only("data", result.sub["data"])
             ELSE data

\* run.py:1436-1453: should_write_file.
ShouldWriteFile(output_file, save_output, result_data) ==
    \/ output_file
    \/ save_output /\ result_data # JNull
    \/ SerializedSize(result_data) > MAX_RESPONSE_SIZE_BYTES

\* run.py:1457-1487: where the file goes: the path given, the tmp folder for a result
\* saved only for its size, the per-script output folder otherwise.
OutputPath(output_file, save_output, result_data) ==
    IF output_file THEN "given"
    ELSE IF save_output /\ result_data # JNull THEN "outputs"
    ELSE "tmp"

\* run.py:1499-1505: file_info.
FileInfo == JDict([k \in {"_output_file", "_file_size_bytes", "_message", "_summary"} |->
                     IF k = "_file_size_bytes" THEN JNum ELSE JText(k)])

\* run.py:1520-1534: the preview of a dict cuts each of its lists of more than five
\* items to five and a note; the preview of anything else is the thing itself.
Preview(original) ==
    IF IsDict(original)
    THEN JDict([k \in DOMAIN original.sub |->
                  LET v == original.sub[k]
                  IN  IF v.kind = "list" /\ v.len > PreviewItems
                      THEN [v EXCEPT !.len = PreviewItems + 1, !.cut = v.len - PreviewItems]
                      ELSE v])
    ELSE original

\* run.py:1509-1535: result_data once the file is written.
InlineWithFile(original) ==
    IF SerializedSize(original) <= MAX_RESPONSE_SIZE_BYTES
    THEN IF IsDict(original) THEN Merged2(original, FileInfo)
         ELSE Merged2(Only("_data", original), FileInfo)
    ELSE IF Truthy(original) THEN Merged2(FileInfo, Only("_preview", Preview(original)))
         ELSE FileInfo

\* One execution from the script's result on: how the script is run, what it returns
\* or prints, whether it also wrote to stderr, its exit code, and the caller's
\* _output_file (given or not) and _save_output.
ShapeInputs ==
    [strategy : {"function"}, value : ScriptValues, hasStderr : {FALSE}, returncode : {0},
     output_file : BOOLEAN, save_output : BOOLEAN]
    \cup
    [strategy : {"argparse"}, value : ScriptValues, hasStderr : BOOLEAN, returncode : {0, 1},
     output_file : BOOLEAN, save_output : BOOLEAN]

NoShapeIn == [strategy |-> None, value |-> JNull, hasStderr |-> FALSE, returncode |-> 0,
              output_file |-> FALSE, save_output |-> TRUE]

NoFile == [written |-> FALSE, path |-> None, content |-> JNull]

NoShapeResponse == [status |-> None, result |-> JNull, duration_sec |-> FALSE,
                    output_file |-> None]

IdleShape ==
    /\ shapePc = "idle"
    /\ shapeIn = NoShapeIn
    /\ runnerResult = JNull
    /\ resultData = JNull
    /\ resultFile = NoFile
    /\ shapeResponse = NoShapeResponse

\* run.py:1296-1327: result is what the entry function returned, or what
\* _run_argparse_script made of the subprocess's output.
RunScript ==
    /\ shapePc = "run"
    /\ runnerResult' = IF shapeIn.strategy = "function" THEN shapeIn.value
                       ELSE ParseArgparseOutput(shapeIn.value, shapeIn.hasStderr,
                                                shapeIn.returncode)
    /\ shapePc' = "extract"
    /\ UNCHANGED <<shapeIn, resultData, resultFile, shapeResponse>>
    /\ UNCHANGED allButShape

\* run.py:1345-1433: script_status and result_data.  A result that is truthy and no
\* dict makes result.get raise in the arguments of complete_execution: the generic
\* handler answers with status error.
ExtractData ==
    /\ shapePc = "extract"
    /\ IF Truthy(runnerResult) /\ ~IsDict(runnerResult)
       THEN /\ shapePc' = "raised"
            /\ shapeResponse' = [NoShapeResponse EXCEPT !.status = "error",
                                                        !.duration_sec = TRUE]
            /\ UNCHANGED resultData
       ELSE /\ shapePc' = "file"
            /\ resultData' = ResultDataOf(runnerResult)
            /\ UNCHANGED shapeResponse
    /\ UNCHANGED <<shapeIn, runnerResult, resultFile>>
    /\ UNCHANGED allButShape

\* run.py:1436-1535 with should_write_file: json.dump(original_data, f), then
\* result_data becomes the data with the file info, or the file info with a preview.
WriteResultFile ==
    /\ shapePc = "file"
    /\ ShouldWriteFile(shapeIn.output_file, shapeIn.save_output, resultData)
    /\ resultFile' = [written |-> TRUE,
                      path |-> OutputPath(shapeIn.output_file, shapeIn.save_output, resultData),
                      content |-> resultData]
    /\ resultData' = InlineWithFile(resultData)
    /\ shapePc' = "respond"
    /\ UNCHANGED <<shapeIn, runnerResult, shapeResponse>>
    /\ UNCHANGED allButShape

\* run.py:1436-1455 without should_write_file.
SkipResultFile ==
    /\ shapePc = "file"
    /\ ~ShouldWriteFile(shapeIn.output_file, shapeIn.save_output, resultData)
    /\ shapePc' = "respond"
    /\ UNCHANGED <<shapeIn, runnerResult, resultData, resultFile, shapeResponse>>
    /\ UNCHANGED allButShape

\* run.py:1537-1601: the response.
BuildResponse ==
    /\ shapePc = "respond"
    /\ shapeResponse' = [status |-> ScriptStatusOf(runnerResult).text,
                         result |-> IF Truthy(resultData) THEN resultData ELSE EmptyDict,
                         duration_sec |-> TRUE,
                         output_file |-> resultFile.path]
    /\ shapePc' = "done"
    /\ UNCHANGED <<shapeIn, runnerResult, resultData, resultFile>>
    /\ UNCHANGED allButShape

NextShape ==
    \/ RunScript
    \/ ExtractData
    \/ WriteResultFile
    \/ SkipResultFile
    \/ BuildResponse

\* The variables introduced after the script has run are idle.
(***************************************************************************)
(* The parameters on their way to the script (run.py:1229-1240, 549-578).  *)
(***************************************************************************)
ControlKeys == {"_timeout", "_stream_logs", "_output_file", "_save_output"}

\* The other keys a caller may give: plain, snake_case, with a leading underscore,
\* already written as a flag.
ScriptKeys == {"query", "max_results", "_debug", "--verbose"}

\* Values of a parameter: None, a string, a bool, a list of strings.
PNone == [kind |-> "none", text |-> "", flag |-> FALSE, items |-> <<>>]
PText(s) == [kind |-> "str", text |-> s, flag |-> FALSE, items |-> <<>>]
PBool(b) == [kind |-> "bool", text |-> "", flag |-> b, items |-> <<>>]
PList(s) == [kind |-> "list", text |-> "", flag |-> FALSE, items |-> s]

ScriptParamValues == {PNone, PText("v"), PBool(TRUE), PBool(FALSE), PList(<<>>),
                      PList(<<"a", "b">>)}

\* A key the dict does not have.
NoParam == [kind |-> "absent", text |-> "", flag |-> FALSE, items |-> <<>>]

\* The dict made of the keys that are given a value.
ParamDict(f) == [k \in {x \in DOMAIN f : f[x] # NoParam} |-> f[k]]

\* params["parameters"] as a caller can give it.
ParameterDicts ==
    { ParamDict([k \in ControlKeys \cup ScriptKeys |->
                   IF k \in ControlKeys THEN c[k] ELSE s[k]]) :
        c \in [ControlKeys -> {NoParam, PText("c")}],
        s \in [ScriptKeys -> ScriptParamValues \cup {NoParam}] }

\* dict.pop(key, default) for each key in turn: the dict that is left.
Popped(d, keys) == [k \in DOMAIN d \ keys |-> d[k]]

\* key.startswith("_")
StartsWithUnderscore(key) == key \in ControlKeys \cup {"_debug"}

\* The flag of a key: the key itself when it starts with a dash, else "--" and the
\* key with every underscore turned into a dash.
ArgFlag(key) ==
    CASE key = "query" -> "--query"
      [] key = "max_results" -> "--max-results"
      [] key = "--verbose" -> "--verbose"
      [] key = "_debug" -> "---debug"
      [] key = "_timeout" -> "---timeout"
      [] key = "_stream_logs" -> "---stream-logs"
      [] key = "_output_file" -> "---output-file"
      [] key = "_save_output" -> "---save-output"

\* "--no-" and the flag without its leading dashes.
NoFlag(key) ==
    CASE key = "query" -> "--no-query"
      [] key = "max_results" -> "--no-max-results"
      [] key = "--verbose" -> "--no-verbose"
      [] key = "_debug" -> "--no-debug"
      [] key = "_timeout" -> "--no-timeout"
      [] key = "_stream_logs" -> "--no-stream-logs"
      [] key = "_output_file" -> "--no-output-file"
      [] key = "_save_output" -> "--no-save-output"

\* The arguments one parameter would add to the command.
RECURSIVE Repeated(_, _)
Repeated(flag, items) ==
    IF items = <<>> THEN <<>>
    ELSE <<flag, Head(items)>> \o Repeated(flag, Tail(items))

ArgsOf(key, value) ==
    CASE value.kind = "bool" -> IF value.flag THEN <<ArgFlag(key)>> ELSE <<NoFlag(key)>>
      [] value.kind = "list" -> Repeated(ArgFlag(key), value.items)
      [] OTHER -> <<ArgFlag(key), value.text>>

\* The order in which script_params.items() yields the keys.
KeyOrder == <<"_timeout", "query", "_debug", "_stream_logs", "max_results",
              "_output_file", "--verbose", "_save_output">>

\* run.py:549-578: the command-line arguments built from script_params.
RECURSIVE CommandArgs(_, _)
CommandArgs(d, i) ==
    IF i > Len(KeyOrder) THEN <<>>
    ELSE LET key == KeyOrder[i]
         IN  IF key \notin DOMAIN d THEN CommandArgs(d, i + 1)
             ELSE IF d[key] = PNone THEN CommandArgs(d, i + 1)
             ELSE IF StartsWithUnderscore(key) THEN CommandArgs(d, i + 1)
             ELSE ArgsOf(key, d[key]) \o CommandArgs(d, i + 1)

NoHanded == [kind |-> None, dict |-> <<>>, argv |-> <<>>]

NoParamIn == [strategy |-> None, parameters |-> <<>>]

IdleParams ==
    /\ paramPc = "idle"
    /\ paramIn = NoParamIn
    /\ scriptParams = <<>>
    /\ handed = NoHanded

\* run.py:1229-1240: the four control parameters are popped from script_params.
PopControlParams ==
    /\ paramPc = "given"
    /\ scriptParams' = Popped(paramIn.parameters, ControlKeys)
    /\ paramPc' = "stripped"
    /\ UNCHANGED <<paramIn, handed>>
    /\ UNCHANGED allButParams

\* run.py:1296-1316 and 509: func(script_params).
CallEntryFunction ==
    /\ paramPc = "stripped"
    /\ paramIn.strategy = "function"
    /\ handed' = [kind |-> "dict", dict |-> scriptParams, argv |-> <<>>]
    /\ paramPc' = "invoked"
    /\ UNCHANGED <<paramIn, scriptParams>>
    /\ UNCHANGED allButParams

\* run.py:1317-1327 and 543-578: the subprocess's command line.
BuildCommand ==
    /\ paramPc = "stripped"
    /\ paramIn.strategy = "argparse"
    /\ handed' = [kind |-> "argv", dict |-> <<>>, argv |-> CommandArgs(scriptParams, 1)]
    /\ paramPc' = "invoked"
    /\ UNCHANGED <<paramIn, scriptParams>>
    /\ UNCHANGED allButParams

NextParams ==
    \/ PopControlParams
    \/ CallEntryFunction
    \/ BuildCommand

(***************************************************************************)
(* EnvManager.install_packages (env_manager.py:202-269) and                *)
(* RunTool._install_pip_dependencies (run.py:296-347): the install loop.   *)
(***************************************************************************)
MaxPackages == 3

\* The names a package entry can carry; "" is an entry without a name.
PackageNames == {"", "a", "b"}

PackageLists == UNION {[1..n -> PackageNames] : n \in 0..MaxPackages}

\* Who installs, the packages, how the installer ends for each entry, and whether
\* the venv can be had (get_python calls ensure_venv, which raises when the venv
\* cannot be created).
InstallInputs ==
    UNION {[caller : {"env_manager", "run_tool"}, packages : {p},
            outcome : [DOMAIN p -> PipOutcomes], venv : {"ok", "fails"}] :
             p \in PackageLists}

NoInstallIn == [caller |-> None, packages |-> <<>>, outcome |-> <<>>, venv |-> "ok"]

NoInstallResult == [status |-> None, installed |-> <<>>, failed |-> <<>>]

IdleInstall ==
    /\ instPc = "idle"
    /\ instIn = NoInstallIn
    /\ instIx = 0
    /\ attempted = <<>>
    /\ installedList = <<>>
    /\ failedList = <<>>
    /\ instResult = NoInstallResult

\* A plausible slip: the first failure ends the loop.
StopAfterFailure(i, n) == n + 1

\* The loop goes on with the next package after an except clause or a non-zero exit.
AfterFailure(i, n) == i + 1

\* "if failed: 'partial' if installed else 'error'; else 'success'"
InstallStatus(ins, fai) ==
    IF fai = <<>> THEN "success" ELSE IF ins # <<>> THEN "partial" ELSE "error"

\* Before the loop: the empty list returns at once; EnvManager asks for the venv's
\* python (RuntimeError when the venv cannot be created); RunTool validates the
\* entries (ValueError for an entry without a name).
StartInstall ==
    /\ instPc = "start"
    /\ IF instIn.packages = <<>>
       THEN /\ instPc' = "returned"
            /\ instResult' = [status |-> "success", installed |-> <<>>, failed |-> <<>>]
            /\ instIx' = instIx
       ELSE IF \/ instIn.caller = "env_manager" /\ instIn.venv = "fails"
               \/ instIn.caller = "run_tool"
                    /\ \E i \in DOMAIN instIn.packages : instIn.packages[i] = ""
       THEN /\ instPc' = "raised"
            /\ UNCHANGED <<instResult, instIx>>
       ELSE /\ instPc' = "loop"
            /\ instIx' = 1
            /\ instResult' = instResult
    /\ UNCHANGED <<instIn, attempted, installedList, failedList>>
    /\ UNCHANGED allButInstall

\* One turn of "for pkg in packages": an entry without a name is passed over; pip
\* is run for the others and the entry goes to installed or to failed.  The field at
\* is the entry's position in the list, kept to tell equal names apart.
InstallOne ==
    /\ instPc = "loop"
    /\ instIx <= Len(instIn.packages)
    /\ LET name == instIn.packages[instIx]
           how == instIn.outcome[instIx]
       IN  IF name = ""
           THEN /\ instIx' = instIx + 1
                /\ UNCHANGED <<attempted, installedList, failedList>>
           ELSE /\ attempted' = Append(attempted, name)
                /\ IF how = "ok"
                   THEN /\ installedList' = Append(installedList,
                                                  [name |-> name, at |-> instIx])
                        /\ failedList' = failedList
                        /\ instIx' = instIx + 1
                   ELSE /\ failedList' = Append(failedList, [name |-> name, at |-> instIx,
                                                     error |-> how])
                        /\ installedList' = installedList
                        /\ instIx' = AfterFailure(instIx, Len(instIn.packages))
    /\ UNCHANGED <<instPc, instIn, instResult>>
    /\ UNCHANGED allButInstall

\* After the loop: the status and the two lists.
ReturnInstall ==
    /\ instPc = "loop"
    /\ instIx > Len(instIn.packages)
    /\ instResult' = [status |-> InstallStatus(installedList, failedList),
                      installed |-> installedList, failed |-> failedList]
    /\ instPc' = "returned"
    /\ UNCHANGED <<instIn, instIx, attempted, installedList, failedList>>
    /\ UNCHANGED allButInstall

NextInstall ==
    \/ StartInstall
    \/ InstallOne
    \/ ReturnInstall

(***************************************************************************)
(* Several invocations of RunTool.execute in one server process: one event *)
(* loop, one sys.stderr, one logging configuration, one history.jsonl.     *)
(***************************************************************************)
NumInvocations == 2

Invocations == 1..NumInvocations

\* What the entry function of an invocation's script does with its diagnostics:
\* whether it calls logging.basicConfig(), whether it logs a line through the
\* logging module, whether it writes a line to sys.stderr; and the call's
\* _stream_logs.
ScriptLogging == [configures : BOOLEAN, logs : BOOLEAN, prints : BOOLEAN,
                  stream_logs : BOOLEAN]

NoScriptLogging == [configures |-> FALSE, logs |-> FALSE, prints |-> FALSE,
                    stream_logs |-> TRUE]

\* A stream is the process's own stderr or the DualStderr of an invocation, named
\* by the invocation's number; the root logger may have no handler at all.
OriginalStderr == 0
NoHandler == 0 - 1

IdleLog ==
    /\ logPc = [i \in Invocations |-> "idle"]
    /\ logIn = [i \in Invocations |-> NoScriptLogging]
    /\ logId = [i \in Invocations |-> 0]
    /\ nextUuid = 1
    /\ loopOwner = 0
    /\ stderrNow = OriginalStderr
    /\ rootHandler = NoHandler
    /\ rootUpdated = FALSE
    /\ historyFile = <<>>

\* An entry of history.jsonl; by is the invocation on whose behalf it is written
\* (a label of the model, not a field of the file).
LogEntry(eid, what, by) == [execution_id |-> eid, what |-> what, by |-> by]

\* DualStderr.write / flush (run.py:437-480): a line shows in the file under the
\* execution_id the DualStderr was built with; a stream that is the process's own
\* stderr leaves nothing in the file.
LineThrough(file, stream, by) ==
    IF stream \in Invocations
    THEN Append(file, LogEntry(logId[stream], "line", by))
    ELSE file

\* run.py:1070-1108: the awaits before the execution starts; the event loop may run
\* another invocation at each.
AwaitResolution(i) ==
    /\ logPc[i] = "resolve"
    /\ loopOwner = 0
    /\ logPc' = [logPc EXCEPT ![i] = "start"]
    /\ UNCHANGED <<logIn, logId, nextUuid, loopOwner, stderrNow, rootHandler, rootUpdated,
                   historyFile>>
    /\ UNCHANGED allButLog

\* run.py:1249-1272: start_execution returns a fresh uuid4 and log_execution_start
\* appends the running entry.  From here to complete_execution nothing awaits: the
\* invocation keeps the event loop.
StartLogged(i) ==
    /\ logPc[i] = "start"
    /\ loopOwner = 0
    /\ logId' = [logId EXCEPT ![i] = nextUuid]
    /\ nextUuid' = nextUuid + 1
    /\ historyFile' = Append(historyFile, LogEntry(nextUuid, "start", i))
    /\ loopOwner' = i
    /\ logPc' = [logPc EXCEPT ![i] = "setup"]
    /\ UNCHANGED <<logIn, stderrNow, rootHandler, rootUpdated>>
    /\ UNCHANGED allButLog

\* run.py:412-413 and 482-505: with stream_logs, sys.stderr becomes the invocation's
\* DualStderr and a handler on the original stderr is pointed at it.
SetupStreams(i) ==
    /\ logPc[i] = "setup"
    /\ IF logIn[i].stream_logs
       THEN /\ stderrNow' = i
            /\ rootUpdated' = (rootHandler = OriginalStderr)
            /\ rootHandler' = IF rootHandler = OriginalStderr THEN i ELSE rootHandler
       ELSE UNCHANGED <<stderrNow, rootHandler, rootUpdated>>
    /\ logPc' = [logPc EXCEPT ![i] = "body"]
    /\ UNCHANGED <<logIn, logId, nextUuid, loopOwner, historyFile>>
    /\ UNCHANGED allButLog

\* run.py:507-509, func(script_params): logging.basicConfig() gives the root logger
\* a handler on the current sys.stderr when it has none; a logged line goes through
\* the root handler's stream, a printed one through sys.stderr.
RunBody(i) ==
    /\ logPc[i] = "body"
    /\ LET handler == IF logIn[i].configures /\ rootHandler = NoHandler
                      THEN stderrNow ELSE rootHandler
           logged == IF logIn[i].logs THEN LineThrough(historyFile, handler, i)
                     ELSE historyFile
       IN  /\ rootHandler' = handler
           /\ historyFile' = IF logIn[i].prints THEN LineThrough(logged, stderrNow, i)
                             ELSE logged
    /\ logPc' = [logPc EXCEPT ![i] = "finally"]
    /\ UNCHANGED <<logIn, logId, nextUuid, loopOwner, stderrNow, rootUpdated>>
    /\ UNCHANGED allButLog

\* run.py:516-523: sys.stderr and the handlers in updated_handlers are restored.
RestoreStreams(i) ==
    /\ logPc[i] = "finally"
    /\ IF logIn[i].stream_logs
       THEN /\ stderrNow' = OriginalStderr
            /\ rootHandler' = IF rootUpdated THEN OriginalStderr ELSE rootHandler
            /\ rootUpdated' = FALSE
       ELSE UNCHANGED <<stderrNow, rootHandler, rootUpdated>>
    /\ logPc' = [logPc EXCEPT ![i] = "log"]
    /\ UNCHANGED <<logIn, logId, nextUuid, loopOwner, historyFile>>
    /\ UNCHANGED allButLog

\* run.py:1408-1433: log_execution appends the terminal entry; complete_execution
\* is awaited and the event loop is free again.
LogTerminal(i) ==
    /\ logPc[i] = "log"
    /\ historyFile' = Append(historyFile, LogEntry(logId[i], "terminal", i))
    /\ loopOwner' = 0
    /\ logPc' = [logPc EXCEPT ![i] = "done"]
    /\ UNCHANGED <<logIn, logId, nextUuid, stderrNow, rootHandler, rootUpdated>>
    /\ UNCHANGED allButLog

NextLog ==
    \E i \in Invocations :
        \/ AwaitResolution(i)
        \/ StartLogged(i)
        \/ SetupStreams(i)
        \/ RunBody(i)
        \/ RestoreStreams(i)
        \/ LogTerminal(i)

(***************************************************************************)
(* RemoveTool.execute (tools/remove.py)                                    *)
(***************************************************************************)
\* The script asked to be removed ("s") and a script that uses it ("d").
RmNames == {"s", "d"}

\* A .py file of a tier: its category folder, its stem, and the names n for which
\* its text holds "from lib.n" or "import n".
ScriptFile(cat, name, imports) == [cat |-> cat, name |-> name, imports |-> imports]

RmFiles == {ScriptFile("c1", "s", {}), ScriptFile("lib", "s", {}), ScriptFile("c1", "d", {"s"})}

\* A row of the scripts table: "absent", "active" or "deprecated", and the names in
\* its required_scripts / required_libs.
RmAbsent == [state |-> "absent", requires |-> {}]
RmRow(requires) == [state |-> "active", requires |-> requires]

RemoveTiers == {"project", "user", "registry", "all"}

RemoveRequests == [script_name : {"", "s"}, tier : RemoveTiers, category : {None, "c1"},
                   dry_run : BOOLEAN, force : BOOLEAN, is_lib : BOOLEAN,
                   action : {"deprecate", "delete"}]

NoRemoveRequest == [script_name |-> None, tier |-> None, category |-> None,
                    dry_run |-> FALSE, force |-> FALSE, is_lib |-> FALSE, action |-> None]

NoRemoveResponse == [kind |-> None, dependents |-> {}, project |-> None, user |-> None,
                     registry |-> None]

\* _check_dependencies: the rows that require the name (when there is a client), and
\* the files outside lib/ of the project and user tiers whose text imports it.
DependentsIn(project, user, rows, name) ==
    LET inRegistry == IF rmClient
                      THEN {[name |-> n, tier |-> "registry"] :
                               n \in {x \in RmNames : /\ rows[x].state # "absent"
                                                      /\ name \in rows[x].requires}}
                      ELSE {}
        inTier(files, tier) == {[name |-> f.name, tier |-> tier] :
                                   f \in {g \in files : g.cat # "lib" /\ name \in g.imports}}
    IN  inRegistry \cup inTier(project, "project") \cup inTier(user, "user")

DependentScripts(name) == DependentsIn(rmProject, rmUser, rmRows, name)

\* A plausible slip: the warning is recorded but the call goes on.
NeverBlocked(r, dependents) == FALSE

\* "if not force and not dry_run: ... if dep_check['has_dependencies']: ... return"
BlockedByDependents(r, dependents) == ~r.force /\ ~r.dry_run /\ dependents # {}

\* _remove_from_project / _remove_from_user: the pairs <<files left, outcome>> the
\* call may end with (iterdir's order decides between categories).
RemoveScriptFile(files, name, category, dry_run) ==
    LET found == IF category # None
                 THEN {f \in files : f.cat = category /\ f.name = name}
                 ELSE {f \in files : f.name = name}
    IN  IF found = {} THEN {<<files, "not_found">>}
        ELSE IF dry_run THEN {<<files, "would_remove">>}
        ELSE {<<files \ {f}, "removed">> : f \in found}

\* _remove_lib_from_project / _remove_lib_from_user: they take no dry_run argument.
RemoveLibFile(files, name) ==
    LET found == {f \in files : f.cat = "lib" /\ f.name = name}
    IN  IF found = {} THEN {<<files, "not_found">>}
        ELSE {<<files \ found, "removed">>}

\* registry.delete_script / registry.deprecate_script, then the dry_run rewrite of
\* the result they returned.
RemoveFromRegistry(rows, name, action, dry_run) ==
    LET done == IF ~rmClient \/ rows[name].state = "absent" THEN <<rows, "error">>
                ELSE IF action = "delete"
                THEN <<[rows EXCEPT ![name] = RmAbsent], "deleted">>
                ELSE <<[rows EXCEPT ![name].state = "deprecated"], "deprecated">>
    IN  IF dry_run /\ done[2] # "error" THEN <<done[1], "would_remove">> ELSE done

\* (scripts / "lib" / f"{script_name}.py").exists()
HasLib(files, name) == \E f \in files : f.cat = "lib" /\ f.name = name

\* One call of execute on the tiers as they stand.
RemoveExecute(r) ==
    /\ rmReq = NoRemoveRequest
    /\ rmReq' = r
    /\ rmBefore' = [project |-> rmProject, user |-> rmUser, rows |-> rmRows]
    /\ IF r.script_name = ""
       THEN /\ rmResponse' = [NoRemoveResponse EXCEPT !.kind = "name_required"]
            /\ UNCHANGED <<rmProject, rmUser, rmRows>>
       ELSE IF BlockedByDependents(r, DependentScripts(r.script_name))
       THEN /\ rmResponse' = [NoRemoveResponse EXCEPT !.kind = "has_dependencies",
                                  !.dependents = DependentScripts(r.script_name)]
            /\ UNCHANGED <<rmProject, rmUser, rmRows>>
       ELSE LET is_lib == \/ r.is_lib
                          \/ HasLib(rmProject, r.script_name)
                          \/ HasLib(rmUser, r.script_name)
                local(files) == IF is_lib THEN RemoveLibFile(files, r.script_name)
                                ELSE RemoveScriptFile(files, r.script_name, r.category,
                                                      r.dry_run)
                inProject == IF r.tier \in {"project", "all"} THEN local(rmProject)
                             ELSE {<<rmProject, None>>}
                inUser == IF r.tier \in {"user", "all"} THEN local(rmUser)
                          ELSE {<<rmUser, None>>}
                inRegistry == IF r.tier \in {"registry", "all"}
                              THEN RemoveFromRegistry(rmRows, r.script_name, r.action,
                                                      r.dry_run)
                              ELSE <<rmRows, None>>
            IN  \E p \in inProject, u \in inUser :
                   /\ rmProject' = p[1]
                   /\ rmUser' = u[1]
                   /\ rmRows' = inRegistry[1]
                   /\ rmResponse' = [kind |-> "results", dependents |-> {},
                                     project |-> p[2], user |-> u[2],
                                     registry |-> inRegistry[2]]
    /\ UNCHANGED rmClient
    /\ UNCHANGED allButRemove

NextRemove == \E r \in RemoveRequests : RemoveExecute(r)

IdleRemove ==
    /\ rmProject = {} /\ rmUser = {}
    /\ rmRows = [n \in RmNames |-> RmAbsent]
    /\ rmClient = FALSE
    /\ rmReq = NoRemoveRequest
    /\ rmBefore = [project |-> {}, user |-> {}, rows |-> [n \in RmNames |-> RmAbsent]]
    /\ rmResponse = NoRemoveResponse

(***************************************************************************)
(* ScriptRegistry.publish_script (api/script_registry.py), one step per    *)
(* request sent to the database; the publishers are separate clients of    *)
(* one registry and publish versions of one script.                        *)
(***************************************************************************)
NumPublishers == 2
MaxPublishes == 3
Publishers == 1..NumPublishers

\* scripts.latest_version before the first publish.
NoVersion == 0

InFlight(p) == pubPc[p] \in {"started", "cleared", "inserted"}

\* "existing = ...select('id')...": the script row is found or created; the version
\* to publish is one not published before.
StartPublish(p) ==
    /\ pubPc[p] \in {"idle", "published", "failed"}
    /\ nextVersion <= MaxPublishes
    /\ pubPc' = [pubPc EXCEPT ![p] = "started"]
    /\ pubVer' = [pubVer EXCEPT ![p] = nextVersion]
    /\ nextVersion' = nextVersion + 1
    /\ pubOverlap' = (pubOverlap \/ \E q \in Publishers \ {p} : InFlight(q))
    /\ UNCHANGED <<pubRows, pubLatest, pubFailed>>
    /\ UNCHANGED allButPublish

\* table("script_versions").update({"is_latest": False}).eq("script_id", script_id)
ClearLatest(p) ==
    /\ pubPc[p] = "started"
    /\ pubRows' = {[r EXCEPT !.is_latest = FALSE] : r \in pubRows}
    /\ pubPc' = [pubPc EXCEPT ![p] = "cleared"]
    /\ UNCHANGED <<pubLatest, pubVer, nextVersion, pubOverlap, pubFailed>>
    /\ UNCHANGED allButPublish

\* table("script_versions").insert(version_data) with is_latest True
InsertVersion(p) ==
    /\ pubPc[p] = "cleared"
    /\ pubRows' = pubRows \cup {[version |-> pubVer[p], is_latest |-> TRUE]}
    /\ pubPc' = [pubPc EXCEPT ![p] = "inserted"]
    /\ UNCHANGED <<pubLatest, pubVer, nextVersion, pubOverlap, pubFailed>>
    /\ UNCHANGED allButPublish

\* table("scripts").update({"latest_version": version}), then the "published" result
SetLatestVersion(p) ==
    /\ pubPc[p] = "inserted"
    /\ pubLatest' = pubVer[p]
    /\ pubPc' = [pubPc EXCEPT ![p] = "published"]
    /\ UNCHANGED <<pubRows, pubVer, nextVersion, pubOverlap, pubFailed>>
    /\ UNCHANGED allButPublish

\* A request raises (network, constraint): "except Exception" returns the error dict
\* and what the earlier requests wrote stays.
RequestFails(p) ==
    /\ InFlight(p)
    /\ pubPc' = [pubPc EXCEPT ![p] = "failed"]
    /\ pubFailed' = TRUE
    /\ UNCHANGED <<pubRows, pubLatest, pubVer, nextVersion, pubOverlap>>
    /\ UNCHANGED allButPublish

NextPublish ==
    \E p \in Publishers :
        \/ StartPublish(p)
        \/ ClearLatest(p)
        \/ InsertVersion(p)
        \/ SetLatestVersion(p)
        \/ RequestFails(p)

IdlePublish ==
    /\ pubRows = {}
    /\ pubLatest = NoVersion
    /\ pubPc = [p \in Publishers |-> "idle"]
    /\ pubVer = [p \in Publishers |-> NoVersion]
    /\ nextVersion = 1
    /\ pubOverlap = FALSE
    /\ pubFailed = FALSE

(***************************************************************************)
(* The auto-generated result file names of several executions of one       *)
(* script (run.py:1457-1475, 1492-1500).                                   *)
(***************************************************************************)
NumRuns == 2
MaxSeconds == 3
Runs == 1..NumRuns

\* "outputs": the default persistence; "tmp": the auto-save of a large result.
AutoModes == {"outputs", "tmp"}

\* timestamp = int(time.time()); outputs/{script_name}/{timestamp}_results.json or
\* tmp/{script_name}_{timestamp}_results.json
AutoPath(mode, seconds) == [folder |-> mode, timestamp |-> seconds]

NotWritten == [folder |-> None, timestamp |-> 0]

\* open(output_path, "w"): the file holds what the last writer dumped.
WrittenBy(files, path, i) == [files EXCEPT ![path] = i]

\* A second passes on the wall clock.
SecondPasses ==
    /\ nameClock < MaxSeconds
    /\ nameClock' = nameClock + 1
    /\ UNCHANGED <<nameFiles, namePath>>
    /\ UNCHANGED allButNames

\* One execution reaches "if should_write_file" with no output_file given: it builds
\* the path from the clock and opens it with mode "w".
PersistResult(i, mode) ==
    /\ namePath[i] = NotWritten
    /\ LET path == AutoPath(mode, nameClock)
       IN  /\ namePath' = [namePath EXCEPT ![i] = path]
           /\ nameFiles' = WrittenBy(nameFiles, path, i)
    /\ UNCHANGED nameClock
    /\ UNCHANGED allButNames

NextNames ==
    \/ SecondPasses
    \/ \E i \in Runs, mode \in AutoModes : PersistResult(i, mode)

AutoPaths == {AutoPath(mode, t) : mode \in AutoModes, t \in 0..MaxSeconds}

IdleNames ==
    /\ nameClock = 0
    /\ nameFiles = [p \in AutoPaths |-> 0]
    /\ namePath = [i \in Runs |-> NotWritten]

(***************************************************************************)
(* The import context of one execution (run.py:1274-1342): sys.path and    *)
(* sys.modules around the dynamic import of the script.                    *)
(***************************************************************************)
\* Module names: a script stem nobody else uses, a script stem that is also the name
\* of a module the process has loaded, and a module a script imports.
ModuleNames == {"plain", "colorsys", "wave"}
ScriptStems == {"plain", "colorsys"}

\* _build_search_paths: the script's folder and the tier's lib folder.
SearchPaths == <<"scriptdir", "lib">>

\* "for path in reversed(search_paths): if str(path) not in sys.path:
\*      sys.path.insert(0, str(path))"
RECURSIVE InsertReversed(_, _)
InsertReversed(path, search) ==
    IF search = <<>> THEN path
    ELSE LET last == search[Len(search)]
             rest == SubSeq(search, 1, Len(search) - 1)
             now == IF \E k \in 1..Len(path) : path[k] = last
                    THEN path ELSE <<last>> \o path
         IN  InsertReversed(now, rest)

\* What the script's module does: the modules its top level imports, whether it
\* appends to sys.path, and how the run ends.
ModuleInputs == [stem : ScriptStems, imports : SUBSET {"wave"}, appends : BOOLEAN,
                 ends : {"returns", "import_raises", "no_entry", "entry_raises"}]

NoModuleInput == [stem |-> None, imports |-> {}, appends |-> FALSE, ends |-> None]

\* original_path = sys.path.copy(), then the search paths go in front.
AddSearchPaths ==
    /\ modPc = "start"
    /\ originalPath' = sysPath
    /\ sysPath' = InsertReversed(sysPath, SearchPaths)
    /\ modPc' = "import"
    /\ UNCHANGED <<modIn, sysModules, pathBefore, modulesBefore>>
    /\ UNCHANGED allButModules

\* sys.modules[script_path.stem] = module; spec.loader.exec_module(module): the
\* script's top level runs, its imports are cached in sys.modules.
ExecModule ==
    /\ modPc = "import"
    /\ sysModules' = [n \in ModuleNames |->
                         IF n = modIn.stem THEN "script"
                         ELSE IF n \in modIn.imports /\ sysModules[n] = "absent" THEN "loaded"
                         ELSE sysModules[n]]
    /\ sysPath' = IF modIn.appends THEN Append(sysPath, "extra") ELSE sysPath
    /\ modPc' = IF modIn.ends = "import_raises" THEN "finally" ELSE "entry"
    /\ UNCHANGED <<modIn, originalPath, pathBefore, modulesBefore>>
    /\ UNCHANGED allButModules

\* The entry point is called, or ValueError when the module has neither execute()
\* nor main(); every way out passes the finally block.
CallEntry ==
    /\ modPc = "entry"
    /\ modPc' = "finally"
    /\ UNCHANGED <<modIn, sysPath, sysModules, originalPath, pathBefore, modulesBefore>>
    /\ UNCHANGED allButModules

\* finally: sys.path = original_path; del sys.modules[script_path.stem] when it is
\* in there.
RestoreImports ==
    /\ modPc = "finally"
    /\ sysPath' = originalPath
    /\ sysModules' = [sysModules EXCEPT ![modIn.stem] = "absent"]
    /\ modPc' = "returned"
    /\ UNCHANGED <<modIn, originalPath, pathBefore, modulesBefore>>
    /\ UNCHANGED allButModules

NextModules ==
    \/ AddSearchPaths
    \/ ExecModule
    \/ CallEntry
    \/ RestoreImports

IdleModules ==
    /\ modPc = "idle"
    /\ modIn = NoModuleInput
    /\ sysPath = <<>> /\ originalPath = <<>> /\ pathBefore = <<>>
    /\ sysModules = [n \in ModuleNames |-> "absent"]
    /\ modulesBefore = [n \in ModuleNames |-> "absent"]

(***************************************************************************)
(* RunTool._validate_dependencies (run.py:185-238) as a function of its    *)
(* argument.                                                               *)
(***************************************************************************)
\* More values a "name" field can hold: the empty string and a JSON-encoded list.
EmptyName == ""
JsonEncodedList == "[\"requests\"]"
DepNameValues == NameValues \cup {EmptyName, JsonEncodedList}

\* An element of the list: a dict with its "name" and "version", or something else.
DepEntries == [kind : {"dict"}, name : DepNameValues, version : VersionValues]
                  \cup {[kind |-> "str", name |-> None, version |-> None]}

\* The argument: a list, or a value of another type.
DepArguments == [kind : {"list"}, items : SeqsUpTo(DepEntries, MaxDeps)]
                    \cup {[kind |-> "dict", items |-> <<>>]}

\* A plausible slip: only a missing name is rejected.
NameMissing(name) == name \in {None, EmptyName}

\* "if not name or not isinstance(name, str)"
NameRejected(name) == name \in {None, EmptyName} \/ name = NotAString

\* "name.startswith('{') or name.startswith('[')"
LooksJsonEncoded(name) == name \in {JsonEncoded, JsonEncodedList}

\* The checks of one loop iteration, in the order of the code: the ValueError the
\* entry raises, or "ok".
CheckEntry(dep) ==
    IF dep.kind # "dict" THEN "not_a_dict"
    ELSE IF NameRejected(dep.name) THEN "name_not_a_string"
    ELSE IF LooksJsonEncoded(dep.name) THEN "name_json_encoded"
    ELSE IF dep.version # None /\ dep.version = NotAString THEN "version_not_a_string"
    ELSE "ok"

NoValidation == [error |-> None, index |-> 0 - 1, validated |-> <<>>]

\* The call's outcome: the ValueError raised, with the index i of enumerate() its
\* message starts with, or the validated list.
ValidateResult(v) ==
    IF v.kind # "list" THEN [NoValidation EXCEPT !.error = "not_a_list"]
    ELSE LET bad == {i \in DOMAIN v.items : CheckEntry(v.items[i]) # "ok"}
         IN  IF bad # {}
             THEN LET first == CHOOSE i \in bad : \A j \in bad : i <= j
                  IN  [error |-> CheckEntry(v.items[first]), index |-> first - 1,
                       validated |-> <<>>]
             ELSE [error |-> "none", index |-> 0 - 1,
                   validated |-> [i \in DOMAIN v.items |->
                                     [name |-> v.items[i].name,
                                      version |-> v.items[i].version]]]

Validate ==
    /\ valPc = "given"
    /\ valOut' = ValidateResult(valIn)
    /\ valPc' = "returned"
    /\ UNCHANGED valIn
    /\ UNCHANGED allButValidate

NextValidate == Validate

IdleValidate ==
    /\ valPc = "idle"
    /\ valIn = [kind |-> "list", items |-> <<>>]
    /\ valOut = NoValidation

(***************************************************************************)
(* _download_lib_dependencies of the load tool (load.py:25-61) and of the  *)
(* run tool (run.py:986-1015), one step per library of the loop.           *)
(***************************************************************************)
LibraryNames == {"http_session", "youtube_utils"}

\* The two places a lib folder can be: ~/.script-kiwi/scripts/lib and
\* $SCRIPT_KIWI_HOME/scripts/lib when SCRIPT_KIWI_HOME points elsewhere.
LibFolders == {"home", "relocated"}

DownloadTools == {"load", "run"}

\* ScriptResolver.user_scripts / "lib": where download_to_user_space writes.
UserLibFolder == IF homeRelocated THEN "relocated" ELSE "home"

\* The lib_dir whose lib_file.exists() is tested: load reads SCRIPT_KIWI_HOME, run
\* uses Path.home() / ".script-kiwi/scripts/lib".
CheckedFolder(tool) == IF tool = "load" THEN UserLibFolder ELSE "home"

FileExists(folder, name) == folder \in LibFolders /\ libFiles[folder][name] # "absent"

\* One iteration of "for lib_name in lib_names": skipped when the file exists in the
\* folder looked at; otherwise fetched and, when the registry has content for it,
\* written into the user tier with open(user_path, 'w').
DownloadLib(tool, name) ==
    /\ libCalls' = libCalls \cup {[tool |-> tool, name |-> name]}
    /\ IF FileExists(CheckedFolder(tool), name) \/ ~libInRegistry[name]
       THEN libFiles' = libFiles
       ELSE libFiles' = [libFiles EXCEPT ![UserLibFolder][name] = "registry"]
    /\ UNCHANGED <<homeRelocated, libInRegistry, libBefore>>
    /\ UNCHANGED allButLibs

NextLibs == \E tool \in DownloadTools, name \in LibraryNames : DownloadLib(tool, name)

NoLibFiles == [d \in LibFolders |-> [n \in LibraryNames |-> "absent"]]

IdleLibs ==
    /\ homeRelocated = FALSE
    /\ libFiles = NoLibFiles
    /\ libBefore = NoLibFiles
    /\ libInRegistry = [n \in LibraryNames |-> FALSE]
    /\ libCalls = {}

(***************************************************************************)
(* with_retry (utils/shared/api.py:21-53): the wrapper's loop, one step    *)
(* per call of the wrapped function and per sleep.                         *)
(***************************************************************************)
MaxRetries == 4
BackoffBases == {1, 2, 3}

\* How one call of the wrapped function ends: it returns, raises one of
\* retryable_errors, or raises another exception.
WrappedOutcomes == {"returns", "retryable", "other"}

RECURSIVE Pow(_, _)
Pow(b, k) == IF k = 0 THEN 1 ELSE b * Pow(b, k - 1)

\* A plausible slip: the same wait before every retry.
FlatWait(base, k) == base

\* "wait_time = backoff_base ** attempt"
WaitTime(base, k) == Pow(base, k)

NoRetryInput == [max_retries |-> 0, backoff_base |-> 1]
NoError == [kind |-> None, call |-> 0]

\* "return func(*args, **kwargs)" inside the try of one loop iteration.
CallWrapped(outcome) ==
    /\ retryPc = "call"
    /\ attempt < retryIn.max_retries
    /\ outcomes' = Append(outcomes, outcome)
    /\ LET e == [kind |-> outcome, call |-> Len(outcomes) + 1]
       IN  CASE outcome = "returns" ->
                  /\ retryPc' = "returned"
                  /\ UNCHANGED <<attempt, lastError, raisedError>>
             [] outcome = "other" ->
                  /\ retryPc' = "raised"
                  /\ raisedError' = e
                  /\ UNCHANGED <<attempt, lastError>>
             [] outcome = "retryable" ->
                  /\ lastError' = e
                  /\ IF attempt = retryIn.max_retries - 1
                     THEN /\ retryPc' = "raised"
                          /\ raisedError' = e
                          /\ UNCHANGED attempt
                     ELSE /\ retryPc' = "sleep"
                          /\ UNCHANGED <<attempt, raisedError>>
    /\ UNCHANGED <<retryIn, waits>>
    /\ UNCHANGED allButRetry

\* "time.sleep(wait_time)", then the next iteration of the for loop.
SleepBeforeRetry ==
    /\ retryPc = "sleep"
    /\ waits' = Append(waits, WaitTime(retryIn.backoff_base, attempt))
    /\ attempt' = attempt + 1
    /\ retryPc' = "call"
    /\ UNCHANGED <<retryIn, outcomes, lastError, raisedError>>
    /\ UNCHANGED allButRetry

\* The for loop ends without a return or a raise (range(max_retries) is empty):
\* "raise last_error" with last_error None is a TypeError.
LoopFallsThrough ==
    /\ retryPc = "call"
    /\ attempt >= retryIn.max_retries
    /\ retryPc' = "raised"
    /\ raisedError' = IF lastError = NoError THEN [kind |-> "TypeError", call |-> 0]
                      ELSE lastError
    /\ UNCHANGED <<retryIn, attempt, outcomes, waits, lastError>>
    /\ UNCHANGED allButRetry

NextRetry ==
    \/ \E outcome \in WrappedOutcomes : CallWrapped(outcome)
    \/ SleepBeforeRetry
    \/ LoopFallsThrough

IdleRetry ==
    /\ retryPc = "idle"
    /\ retryIn = NoRetryInput
    /\ attempt = 0
    /\ outcomes = <<>>
    /\ waits = <<>>
    /\ lastError = NoError
    /\ raisedError = NoError

\* run.py:1455-1498: the places a result file can go, and what a call has made
\* there: output_path.parent.mkdir creates the folder, open creates the file.
OutputTargets == {"given", "outputs", "tmp"}

NoOutput == [folders |-> {}, files |-> {}]

WithFolder(fs, target) == [fs EXCEPT !.folders = @ \cup {target}]

WithFile(fs, target) == [folders |-> fs.folders \cup {target}, files |-> fs.files \cup {target}]

IdleOut == outFs = NoOutput

\* The models of the other tools, idle.
IdleTools == IdleRemove /\ IdlePublish /\ IdleNames /\ IdleModules /\ IdleValidate /\ IdleLibs /\ IdleRetry
IdleResults == IdleTrunc /\ IdleShape /\ IdleOut /\ IdleParams /\ IdleInstall /\ IdleLog
IdleButRemove == IdleResults /\ IdlePublish /\ IdleNames /\ IdleModules /\ IdleValidate /\ IdleLibs /\ IdleRetry
IdleButPublish == IdleResults /\ IdleRemove /\ IdleNames /\ IdleModules /\ IdleValidate /\ IdleLibs /\ IdleRetry
IdleButNames == IdleResults /\ IdleRemove /\ IdlePublish /\ IdleModules /\ IdleValidate /\ IdleLibs /\ IdleRetry
IdleButModules == IdleResults /\ IdleRemove /\ IdlePublish /\ IdleNames /\ IdleValidate /\ IdleLibs /\ IdleRetry
IdleButValidate == IdleResults /\ IdleRemove /\ IdlePublish /\ IdleNames /\ IdleModules /\ IdleLibs /\ IdleRetry
IdleButLibs == IdleResults /\ IdleRemove /\ IdlePublish /\ IdleNames /\ IdleModules /\ IdleValidate /\ IdleRetry
IdleButRetry == IdleResults /\ IdleRemove /\ IdlePublish /\ IdleNames /\ IdleModules /\ IdleValidate /\ IdleLibs

\* The later models, idle.
IdleLater ==
    /\ IdleTrunc
    /\ IdleShape
    /\ IdleOut
    /\ IdleParams
    /\ IdleInstall
    /\ IdleLog
    /\ IdleTools

\* The later models but one are idle.
IdleButTrunc == IdleShape /\ IdleOut /\ IdleParams /\ IdleInstall /\ IdleLog /\ IdleTools
IdleButShape == IdleTrunc /\ IdleOut /\ IdleParams /\ IdleInstall /\ IdleLog /\ IdleTools
IdleButParams == IdleTrunc /\ IdleShape /\ IdleOut /\ IdleInstall /\ IdleLog /\ IdleTools
IdleButInstall == IdleTrunc /\ IdleShape /\ IdleOut /\ IdleParams /\ IdleLog /\ IdleTools
IdleButLog == IdleTrunc /\ IdleShape /\ IdleOut /\ IdleParams /\ IdleInstall /\ IdleTools

(***************************************************************************)
(* RunTool.execute, one step per stage of the pipeline.                    *)
(***************************************************************************)
NoRequest == [script_name |-> None, dry_run |-> FALSE, auto_download |-> FALSE,
              stream_logs |-> TRUE]

Requests == [script_name : {"", "s"}, dry_run : BOOLEAN, auto_download : BOOLEAN,
             stream_logs : BOOLEAN]

NothingDone == [installed |-> FALSE, started |-> FALSE, loaded |-> FALSE,
                called |-> FALSE, spawned |-> FALSE]

NoResponse == [kind |-> "none", at |-> None, hasStatus |-> FALSE, status |-> None,
               code |-> None, execution_id |-> None, hasMetadata |-> FALSE]

\* execute raised: nothing is returned to the caller.
Raised(at, what) ==
    [kind |-> "raised", at |-> at, hasStatus |-> FALSE, status |-> None,
     code |-> what, execution_id |-> None, hasMetadata |-> FALSE]

\* json.dumps({"error": ...}): an object with an error and no "status" key.
ErrorObject(at, code) ==
    [kind |-> "json", at |-> at, hasStatus |-> FALSE, status |-> None,
     code |-> code, execution_id |-> None, hasMetadata |-> FALSE]

\* json.dumps({"status": ..., ...}) of a stage before the execution starts.
StatusObject(at, status, code) ==
    [kind |-> "json", at |-> at, hasStatus |-> TRUE, status |-> status,
     code |-> code, execution_id |-> None, hasMetadata |-> FALSE]

\* The response of an execution: status, execution_id, metadata.duration_sec/cost_usd.
ExecutionResponse(at, status, code, eid) ==
    [kind |-> "json", at |-> at, hasStatus |-> TRUE, status |-> status,
     code |-> code, execution_id |-> eid, hasMetadata |-> TRUE]

NoFault == [script |-> "none", raised |-> None, result_error_type |-> None]

NoErrorReport == [error_type |-> None, missing_module |-> FALSE, where |-> None]

IdleFault ==
    /\ fault = NoFault
    /\ errorReport = NoErrorReport

IdleRun ==
    /\ runPc = "idle"
    /\ req = NoRequest
    /\ logDir = "ok"
    /\ remoteLog = "none"
    /\ preflight = "notrun"
    /\ execId = None
    /\ shape = None
    /\ scriptStatus = None
    /\ did = NothingDone
    /\ history = <<>>
    /\ remoteCalls = <<>>
    /\ response = NoResponse

\* ScriptRegistry.get_script: None without a client or when the query raises
\* (caught inside), otherwise the row.
GetScript(name) ==
    IF registryClient = "ok" THEN registry[name] ELSE NoRow

Respond(r) ==
    /\ response' = r
    /\ runPc' = "done"

\* execute, up to the first resolution: the script_name test, resolve_script and the
\* not-found answers.
Execute(params) ==
    /\ runPc = "idle"
    /\ req' = params
    /\ IF params.script_name = ""
       THEN /\ Respond(ErrorObject("params", "script_name is required"))
            /\ resolved' = resolved
       ELSE \E r \in ResolveScript(params.script_name, None) :
              /\ resolved' = r
              /\ IF r.location = None
                 THEN Respond(ErrorObject("resolve", "SCRIPT_NOT_FOUND"))
                 ELSE IF r.location = "registry" /\ r.path = NoPath
                 THEN IF params.auto_download
                      THEN runPc' = "download" /\ response' = response
                      ELSE Respond(ErrorObject("resolve", "SCRIPT_NOT_FOUND_LOCALLY"))
                 ELSE runPc' = "preflight" /\ response' = response
    /\ resolveArgs' = [name |-> params.script_name, category |-> None]
    /\ UNCHANGED <<tierVars, envVars, stageVars>>
    /\ UNCHANGED <<logDir, remoteLog, preflight, execId, shape, scriptStatus, did,
                   history, remoteCalls>>

\* The file download_to_user_space writes for a registry row.
DownloadPath(name, row) == [cat |-> row.category, sub |-> row.subcategory, name |-> name]

\* _download_script_with_deps, then the second resolve_script.  A row without
\* content raises ValueError, which nothing in execute catches.
Download ==
    /\ runPc = "download"
    /\ LET row == GetScript(req.script_name)
       IN  IF ~row.present \/ ~row.hasContent
           THEN /\ Respond(Raised("download", "ValueError"))
                /\ UNCHANGED <<userFiles, resolved>>
           ELSE /\ userFiles' = userFiles \cup {DownloadPath(req.script_name, row)}
                /\ resolved' \in ResolveIn(projectFiles, userFiles', req.script_name, None)
                /\ runPc' = "preflight"
                /\ response' = response
    /\ UNCHANGED <<projectFiles, registry, registryClient, projectLock, userLock, resolveArgs>>
    /\ UNCHANGED <<envVars, stageVars>>
    /\ UNCHANGED <<req, logDir, remoteLog, preflight, execId, shape, scriptStatus, did,
                   history, remoteCalls>>

\* A plausible slip: the blockers are ignored.
RunPreflightAlwaysPasses(missingCredentials) == TRUE

\* run_preflight as execute calls it (no validation rules, no cost thresholds): the
\* only blockers are missing credentials; "pass" is len(blockers) == 0.
RunPreflight(missingCredentials) == missingCredentials = {}

\* The preflight stage: skipped when the registry has no row for the script.
Preflight ==
    /\ runPc = "preflight"
    /\ LET script == GetScript(req.script_name)
       IN  IF ~script.present
           THEN /\ preflight' = "notrun"
                /\ runPc' = "libs" /\ response' = response
           ELSE \E missing \in SUBSET {"API_KEY"} :
                  /\ preflight' = IF missing = {} THEN "pass" ELSE "fail"
                  /\ IF RunPreflight(missing)
                     THEN runPc' = "libs" /\ response' = response
                     ELSE Respond(StatusObject("preflight", "validation_failed", "blockers"))
    /\ UNCHANGED <<tierVars, resolverVars, envVars, stageVars>>
    /\ UNCHANGED <<req, logDir, remoteLog, execId, shape, scriptStatus, did,
                   history, remoteCalls>>

\* _verify_lib_dependencies: only for a registry row with required_libs; a missing
\* library answers {"error": {"code": "MISSING_DEPENDENCIES", ...}}.
VerifyLibs ==
    /\ runPc = "libs"
    /\ \E libsMissing \in BOOLEAN :
         IF GetScript(req.script_name).present /\ libsMissing
         THEN Respond(ErrorObject("libs", "MISSING_DEPENDENCIES"))
         ELSE runPc' = "deps" /\ response' = response
    /\ UNCHANGED <<tierVars, resolverVars, envVars, stageVars>>
    /\ UNCHANGED <<req, logDir, remoteLog, preflight, execId, shape, scriptStatus, did,
                   history, remoteCalls>>

\* The pip dependency stage up to the import probes: registry dependencies are
\* validated (corrupted metadata answers metadata_corruption), merged with the
\* file's, and probed; missing packages lead to the install step.
CheckDependencies ==
    /\ runPc = "deps"
    /\ \E registryDeps \in {"none", "valid", "corrupted"}, missing \in BOOLEAN :
         /\ registryDeps # "none" => GetScript(req.script_name).present
         /\ IF registryDeps = "corrupted"
            THEN Respond(StatusObject("deps", "error", "metadata_corruption"))
            ELSE IF missing
            THEN runPc' = "install" /\ response' = response
            ELSE runPc' = "dryrun" /\ response' = response
    /\ UNCHANGED <<tierVars, resolverVars, envVars, stageVars>>
    /\ UNCHANGED <<req, logDir, remoteLog, preflight, execId, shape, scriptStatus, did,
                   history, remoteCalls>>

\* _install_pip_dependencies: pip runs for each missing package; any failure is fatal.
InstallDependencies ==
    /\ runPc = "install"
    /\ did' = [did EXCEPT !.installed = TRUE]
    /\ \E failed \in BOOLEAN :
         IF failed
         THEN Respond(StatusObject("install", "error", "dependency_error"))
         ELSE runPc' = "dryrun" /\ response' = response
    /\ UNCHANGED <<tierVars, resolverVars, envVars, stageVars>>
    /\ UNCHANGED <<req, logDir, remoteLog, preflight, execId, shape, scriptStatus,
                   history, remoteCalls>>

\* A plausible slip: the dry_run flag is not honoured.
StopsForDryRunNever(params) == FALSE

\* "if dry_run:": whether the call stops after the dependency stage.
StopsForDryRun(params) == params.dry_run

\* The dry-run exit and the last path test before the execution.
DryRunExit ==
    /\ runPc = "dryrun"
    /\ IF StopsForDryRun(req)
       THEN Respond(StatusObject("dryrun", "validation_passed", None))
       ELSE IF resolved.path = NoPath
       THEN Respond(ErrorObject("dryrun", "SCRIPT_NOT_FOUND_LOCALLY"))
       ELSE runPc' = "start" /\ response' = response
    /\ UNCHANGED <<tierVars, resolverVars, envVars, stageVars>>
    /\ UNCHANGED <<req, logDir, remoteLog, preflight, execId, shape, scriptStatus, did,
                   history, remoteCalls>>

\* What an append to history.jsonl leaves in the file.
Appended(entry) == IF logDir = "ok" THEN Append(history, entry) ELSE history

\* ExecutionLogger.complete_execution: the call, and whether its insert reached the
\* executions table (no client: nothing is sent; a failing insert is caught).
CompleteExecution(eid, status) ==
    [execution_id |-> eid, status |-> status, stored |-> remoteLog = "ok"]

\* start_execution (a fresh uuid) and log_execution_start, whose failures are caught.
StartExecution ==
    /\ runPc = "start"
    /\ execId' = "e1"
    /\ did' = [did EXCEPT !.started = TRUE]
    /\ history' = Appended([execution_id |-> "e1", status |-> "running", log_line |-> FALSE])
    /\ runPc' = "load"
    /\ UNCHANGED <<tierVars, resolverVars, envVars, stageVars>>
    /\ UNCHANGED <<req, logDir, remoteLog, preflight, shape, scriptStatus,
                   remoteCalls, response>>

\* spec.loader.exec_module(module): the script's top-level code runs.  It may raise
\* ImportError (a missing package), raise anything else, or leave a module that
\* exposes execute, main(params), main() or neither (ValueError).
LoadModule ==
    /\ runPc = "load"
    /\ did' = [did EXCEPT !.loaded = TRUE]
    /\ \E outcome \in {"execute", "main_params", "main_argparse", "neither",
                       "ImportError", "Exception"} :
         /\ shape' = IF outcome \in {"ImportError", "Exception"} THEN None ELSE outcome
         /\ runPc' = CASE outcome = "ImportError" -> "importerror"
                       [] outcome \in {"Exception", "neither"} -> "exception"
                       [] OTHER -> "call"
         /\ fault' = CASE outcome = "ImportError" ->
                             [fault EXCEPT !.script = "import", !.raised = "ImportError"]
                       [] outcome = "Exception" ->
                             [fault EXCEPT !.script = "other", !.raised = "Exception"]
                       [] outcome = "neither" ->
                             [fault EXCEPT !.script = "other", !.raised = "ValueError"]
                       [] OTHER -> fault
    /\ errorReport' = errorReport
    /\ UNCHANGED <<tierVars, resolverVars, envVars, depVars, procVars, funcVars, laterVars>>
    /\ UNCHANGED <<req, logDir, remoteLog, preflight, execId, scriptStatus,
                   history, remoteCalls, response>>

ScriptStatuses == {"success", "error", "partial_success"}

\* The entry DualStderr.write / log_stderr_line appends for a line the script wrote
\* to stderr: status "running" and the line itself.
MirroredLine(eid) == [execution_id |-> eid, status |-> "running", log_line |-> TRUE]

\* _run_function_script: with _stream_logs the runs directory is made first (mkdir
\* may raise); the entry function then returns a result or raises, and what it wrote
\* to stderr meanwhile is in the history.  An ImportError
\* is re-raised as RuntimeError when streaming and as itself otherwise.
RunFunctionScript ==
    /\ runPc = "call"
    /\ shape \in {"execute", "main_params"}
    /\ IF req.stream_logs /\ logDir = "uncreatable"
       THEN /\ runPc' = "exception"
            /\ fault' = [fault EXCEPT !.raised = "OSError"]
            /\ UNCHANGED <<did, scriptStatus, history>>
       ELSE /\ did' = [did EXCEPT !.called = TRUE]
            /\ \E writesLine \in BOOLEAN :
                 history' = IF writesLine /\ req.stream_logs
                            THEN Appended(MirroredLine(execId)) ELSE history
            /\ \E outcome \in ScriptStatuses \cup {"ImportError", "Exception"} :
                 /\ scriptStatus' = IF outcome \in ScriptStatuses THEN outcome ELSE None
                 /\ runPc' = CASE outcome \in ScriptStatuses -> "finish"
                               [] outcome = "ImportError" /\ ~req.stream_logs -> "importerror"
                               [] OTHER -> "exception"
                 /\ fault' = CASE outcome = "ImportError" ->
                                     [fault EXCEPT !.script = "import",
                                                   !.raised = IF req.stream_logs
                                                              THEN "RuntimeError"
                                                              ELSE "ImportError"]
                               [] outcome = "Exception" ->
                                     [fault EXCEPT !.script = "other", !.raised = "Exception"]
                               [] OTHER -> fault
    /\ errorReport' = errorReport
    /\ UNCHANGED <<tierVars, resolverVars, envVars, depVars, procVars, funcVars, laterVars>>
    /\ UNCHANGED <<req, logDir, remoteLog, preflight, execId, shape,
                   remoteCalls, response>>

\* _run_argparse_script: the subprocess is started and its output parsed into a
\* result; every failure inside (mkdir, Popen, timeout) is caught and returned as
\* a result with status error.
RunArgparseScript ==
    /\ runPc = "call"
    /\ shape = "main_argparse"
    /\ IF req.stream_logs /\ logDir = "uncreatable"
       THEN /\ scriptStatus' = "error"
            /\ did' = did
            /\ fault' = fault
            /\ history' = history
       ELSE /\ did' = [did EXCEPT !.spawned = TRUE]
            /\ \E writesLine \in BOOLEAN :
                 history' = IF writesLine /\ req.stream_logs
                            THEN Appended(MirroredLine(execId)) ELSE history
            /\ \E importFails \in BOOLEAN :
                 IF importFails
                 THEN /\ scriptStatus' = "error"
                      /\ fault' = [fault EXCEPT !.script = "import",
                                                !.result_error_type = "dependency_error"]
                 ELSE /\ scriptStatus' \in ScriptStatuses
                      /\ fault' = fault
    /\ runPc' = "finish"
    /\ errorReport' = errorReport
    /\ UNCHANGED <<tierVars, resolverVars, envVars, depVars, procVars, funcVars, laterVars>>
    /\ UNCHANGED <<req, logDir, remoteLog, preflight, execId, shape,
                   remoteCalls, response>>

\* The normal completion: log_execution (guarded by try), complete_execution, the
\* result file, the response.  A failing write of the result file raises into the
\* generic handler after the completion has been logged.
Finish ==
    /\ runPc = "finish"
    /\ history' = Appended([execution_id |-> execId, status |-> scriptStatus,
                             log_line |-> FALSE])
    /\ remoteCalls' = Append(remoteCalls, CompleteExecution(execId, scriptStatus))
    /\ \E fileWriteFails \in BOOLEAN :
         IF fileWriteFails
         THEN /\ runPc' = "exception" /\ response' = response
              /\ fault' = [fault EXCEPT !.raised = "OSError"]
              /\ errorReport' = errorReport
              /\ \E target \in OutputTargets, mkdirDone \in BOOLEAN :
                    outFs' = IF mkdirDone THEN WithFolder(outFs, target) ELSE outFs
         ELSE /\ Respond(ExecutionResponse("finish", scriptStatus, None, execId))
              /\ fault' = fault
              /\ errorReport' = [error_type |-> fault.result_error_type,
                                 missing_module |-> fault.result_error_type # None,
                                 where |-> IF fault.result_error_type # None
                                           THEN "result" ELSE None]
              /\ \E target \in OutputTargets \cup {None} :
                    outFs' = IF target = None THEN outFs ELSE WithFile(outFs, target)
    /\ UNCHANGED <<tierVars, resolverVars, envVars, depVars, procVars, funcVars,
                   truncVars, shapeVars, paramVars, instVars, logVars, toolVars>>
    /\ UNCHANGED <<req, logDir, remoteLog, preflight, execId, shape, scriptStatus, did>>

\* except (ModuleNotFoundError, ImportError): the dependency_error answer, built
\* without execution_id and without any log call.
ImportErrorHandler ==
    /\ runPc = "importerror"
    /\ Respond([kind |-> "json", at |-> "importerror", hasStatus |-> TRUE, status |-> "error",
                code |-> "dependency_error", execution_id |-> None, hasMetadata |-> TRUE])
    /\ errorReport' = [error_type |-> "dependency_error", missing_module |-> TRUE,
                       where |-> "top"]
    /\ fault' = fault
    /\ UNCHANGED <<tierVars, resolverVars, envVars, depVars, procVars, funcVars, laterVars>>
    /\ UNCHANGED <<req, logDir, remoteLog, preflight, execId, shape, scriptStatus, did,
                   history, remoteCalls>>

\* except Exception: log_execution is called unguarded (its mkdir may raise out of
\* execute), then complete_execution, then the error response.
ExceptionHandler ==
    /\ runPc = "exception"
    /\ IF logDir = "uncreatable"
       THEN /\ Respond(Raised("exception", "OSError"))
            /\ UNCHANGED <<history, remoteCalls, errorReport>>
       ELSE /\ history' = Appended([execution_id |-> execId, status |-> "error",
                                        log_line |-> FALSE])
            /\ remoteCalls' = Append(remoteCalls, CompleteExecution(execId, "error"))
            /\ Respond(ExecutionResponse("exception", "error", "exception", execId))
            /\ errorReport' = [error_type |-> fault.raised, missing_module |-> FALSE,
                               where |-> "top"]
    /\ fault' = fault
    /\ UNCHANGED <<tierVars, resolverVars, envVars, depVars, procVars, funcVars, laterVars>>
    /\ UNCHANGED <<req, logDir, remoteLog, preflight, execId, shape, scriptStatus, did>>

\* The tiers, the log directory and the remote logger as one call may find them.
InitRun ==
    /\ projectFiles \in {{}, {[cat |-> "c1", sub |-> None, name |-> "s"]}}
    /\ userFiles \in {{}, {[cat |-> "c2", sub |-> "sub", name |-> "s"]}}
    /\ registry \in {[n \in Names |-> IF n = "s" THEN row ELSE NoRow] :
                       row \in {NoRow} \cup [present : {TRUE}, version : {"1.0.0"},
                                             hasContent : BOOLEAN, category : {"c1"},
                                             subcategory : {None}]}
    /\ registryClient \in {"none", "ok"}
    /\ projectLock = NoLockfile /\ userLock = NoLockfile
    /\ resolved = NoResult /\ resolveArgs = NoCall
    /\ FreshEnv
    /\ runPc = "idle"
    /\ req = NoRequest
    /\ logDir \in {"ok", "unwritable", "uncreatable"}
    /\ remoteLog \in {"none", "ok", "failing"}
    /\ preflight = "notrun"
    /\ execId = None
    /\ shape = None
    /\ scriptStatus = None
    /\ did = NothingDone
    /\ history = <<>>
    /\ remoteCalls = <<>>
    /\ response = NoResponse
    /\ IdleDeps
    /\ IdleFault
    /\ IdleProc
    /\ IdleFunc
    /\ IdleLater

NextRun ==
    \/ \E params \in Requests : Execute(params)
    \/ Download
    \/ Preflight
    \/ VerifyLibs
    \/ CheckDependencies
    \/ InstallDependencies
    \/ DryRunExit
    \/ StartExecution
    \/ LoadModule
    \/ RunFunctionScript
    \/ RunArgparseScript
    \/ Finish
    \/ ImportErrorHandler
    \/ ExceptionHandler

InitTiers ==
    /\ projectFiles = {}
    /\ userFiles = {}
    /\ registry \in {[n \in Names |-> NoRow],
                     [n \in Names |-> IF n = "s"
                                      THEN [present |-> TRUE, version |-> "1.0.0", hasContent |-> TRUE,
                                            category |-> "c1", subcategory |-> None]
                                      ELSE NoRow]}
    /\ registryClient \in {"none", "ok", "failing"}
    /\ projectLock \in {NoLockfile, [exists |-> TRUE, pins |-> NoPins],
                        [exists |-> TRUE, pins |-> PinS("1.0.0")]}
    /\ userLock \in {NoLockfile, [exists |-> TRUE, pins |-> NoPins],
                     [exists |-> TRUE, pins |-> PinS("2.0.0")]}

\* The tiers as SpecEnv holds them: empty and never touched.
IdleTiers ==
    /\ projectFiles = {} /\ userFiles = {}
    /\ registry = [n \in Names |-> NoRow] /\ registryClient = "none"
    /\ projectLock = NoLockfile /\ userLock = NoLockfile
    /\ resolved = NoResult /\ resolveArgs = NoCall

InitResolve ==
    /\ InitTiers
    /\ FreshEnv
    /\ IdleRun
    /\ IdleDeps
    /\ IdleFault
    /\ IdleProc
    /\ IdleFunc
    /\ IdleLater
    /\ resolved = NoResult
    /\ resolveArgs = NoCall

NextResolve ==
    \/ \E p \in Paths : WriteProjectFile(p)
    \/ \E p \in Paths : DownloadToUserSpace(p)
    \/ \E p \in Paths : RemoveFromProject(p)
    \/ \E p \in Paths : RemoveFromUser(p)
    \/ \E n \in Names, c \in Categories \cup {None} : Resolve(n, c)

vars == <<projectFiles, userFiles, registry, registryClient, projectLock, userLock,
          resolved, resolveArgs,
          venvDir, venvPython, venvComplete, lockHolder, lockAcquired, envPc, envOutcome,
          runPc, req, logDir, remoteLog, preflight, execId, shape, scriptStatus, did,
          history, remoteCalls, response,
          depPc, libIn, mergeIn, pipDeps, pipIn, depDid, depResponse,
          fault, errorReport,
          procIn, clock, child, written, pipe, reader, parentPc, procResult,
          funcPc, funcIn, sysStderr, handlerStream, handlerBefore, updatedHandlers, loopIx, laterVars>>

SpecResolve == InitResolve /\ [][NextResolve]_vars

InitEnv ==
    /\ IdleTiers
    /\ FreshEnv
    /\ IdleRun
    /\ IdleDeps
    /\ IdleFault
    /\ IdleProc
    /\ IdleFunc
    /\ IdleLater

SpecEnv == InitEnv /\ [][NextEnv]_vars

\* The steps of one ensure_venv call of process p.
EnsureStep(p) ==
    \/ EnsureVenv(p)
    \/ AcquireLock(p)
    \/ Recheck(p)
    \/ BeginCreate(p)
    \/ VenvCreated(p)
    \/ VenvFailed(p)
    \/ UpgradePip(p)
    \/ ReleaseAndLeave(p)

\* The same processes when only the last one is sure to be scheduled: any other
\* process may stop for ever at any point, the lock in its hands.
SpecEnvLoser == InitEnv /\ [][NextEnv]_vars /\ WF_vars(EnsureStep(NumProcs))

SpecRun == InitRun /\ [][NextRun]_vars

InitDeps ==
    /\ IdleTiers
    /\ FreshEnv
    /\ IdleRun
    /\ IdleDeps
    /\ IdleFault
    /\ IdleProc
    /\ IdleFunc
    /\ IdleLater

SpecDeps == InitDeps /\ [][NextDeps]_vars

\* A _run_argparse_script call about to start its subprocess.
InitProc ==
    /\ IdleTiers
    /\ FreshEnv
    /\ IdleRun
    /\ IdleDeps
    /\ IdleFault
    /\ IdleFunc
    /\ IdleLater
    /\ procIn \in ProcInputs
    /\ clock = 0
    /\ child = "notstarted"
    /\ written = [s \in Streams |-> 0]
    /\ pipe = [s \in Streams |-> 0]
    /\ reader = [s \in Streams |-> "idle"]
    /\ parentPc = "start"
    /\ procResult = NoProcResult

SpecProc == InitProc /\ [][NextProc]_vars

\* The parent and the clock keep going; the subprocess and the readers need not.
SpecProcFair == InitProc /\ [][NextProc]_vars /\ WF_vars(ParentStep) /\ WF_vars(Tick)

\* A _run_function_script call about to start.
InitFunc ==
    /\ IdleTiers
    /\ FreshEnv
    /\ IdleRun
    /\ IdleDeps
    /\ IdleFault
    /\ IdleProc
    /\ IdleLater
    /\ funcPc = "start"
    /\ funcIn \in FuncInputs
    /\ sysStderr = "original_stderr"
    /\ handlerStream = funcIn.streams
    /\ handlerBefore = funcIn.streams
    /\ updatedHandlers = <<>>
    /\ loopIx = 1

SpecFunc == InitFunc /\ [][NextFunc]_vars

\* The state before any of the operations modelled above has been called.
InitBase ==
    /\ IdleTiers
    /\ FreshEnv
    /\ IdleRun
    /\ IdleDeps
    /\ IdleFault
    /\ IdleProc
    /\ IdleFunc

\* A payload and a cap, about to be truncated.
InitTrunc ==
    /\ InitBase
    /\ truncPc = "input"
    /\ truncIn \in [data : Payloads, max_items : Caps]
    /\ truncOnce = IntValue
    /\ truncTwice = IntValue
    /\ IdleButTrunc

SpecTrunc == InitTrunc /\ [][NextTrunc]_vars

\* A script about to be run, with what it will return or print.
InitShape ==
    /\ InitBase
    /\ IdleButShape
    /\ shapePc = "run"
    /\ shapeIn \in ShapeInputs
    /\ runnerResult = JNull
    /\ resultData = JNull
    /\ resultFile = NoFile
    /\ shapeResponse = NoShapeResponse

SpecShape == InitShape /\ [][NextShape]_vars

\* A call with its parameters, the script resolved and about to be executed.
InitParams ==
    /\ InitBase
    /\ IdleButParams
    /\ paramPc = "given"
    /\ paramIn \in [strategy : {"function", "argparse"}, parameters : ParameterDicts]
    /\ scriptParams = <<>>
    /\ handed = NoHanded

SpecParams == InitParams /\ [][NextParams]_vars

\* A list of packages about to be installed.
InitInstall ==
    /\ InitBase
    /\ IdleButInstall
    /\ instPc = "start"
    /\ instIn \in InstallInputs
    /\ instIx = 0
    /\ attempted = <<>>
    /\ installedList = <<>>
    /\ failedList = <<>>
    /\ instResult = NoInstallResult

SpecInstall == InitInstall /\ [][NextInstall]_vars

\* Several invocations received by a server whose logging is configured on the
\* process's stderr, or not configured.
InitLog ==
    /\ InitBase
    /\ IdleButLog
    /\ logPc = [i \in Invocations |-> "resolve"]
    /\ logIn \in [Invocations -> ScriptLogging]
    /\ logId = [i \in Invocations |-> 0]
    /\ nextUuid = 1
    /\ loopOwner = 0
    /\ stderrNow = OriginalStderr
    /\ rootHandler \in {NoHandler, OriginalStderr}
    /\ rootUpdated = FALSE
    /\ historyFile = <<>>

SpecLog == InitLog /\ [][NextLog]_vars

\* The tiers before a remove call: any of the three files in each local tier, the
\* registry with or without a row for each name.
InitRemove ==
    /\ InitBase
    /\ IdleButRemove
    /\ rmProject \in SUBSET RmFiles
    /\ rmUser \in SUBSET RmFiles
    /\ rmRows \in {[n \in RmNames |-> IF n = "s" THEN s ELSE d] :
                      s \in {RmAbsent, RmRow({})}, d \in {RmAbsent, RmRow({"s"})}}
    /\ rmClient \in BOOLEAN
    /\ rmReq = NoRemoveRequest
    /\ rmBefore = [project |-> rmProject, user |-> rmUser, rows |-> rmRows]
    /\ rmResponse = NoRemoveResponse

SpecRemove == InitRemove /\ [][NextRemove]_vars

\* A registry that holds no version of the script yet.
InitPublish ==
    /\ InitBase
    /\ IdleButPublish
    /\ IdlePublish

SpecPublish == InitPublish /\ [][NextPublish]_vars

\* Executions of one script, none of which has written its result yet; the files
\* record which execution's data they hold (0: no such file).
InitNames ==
    /\ InitBase
    /\ IdleButNames
    /\ IdleNames

SpecNames == InitNames /\ [][NextNames]_vars

\* A server process about to import a script: sys.path may hold the lib folder
\* already; colorsys and wave may have been imported before.
InitModules ==
    /\ InitBase
    /\ IdleButModules
    /\ modPc = "start"
    /\ modIn \in ModuleInputs
    /\ sysPath \in {<<"site">>, <<"lib", "site">>}
    /\ sysModules \in {[n \in ModuleNames |-> IF n = "plain" THEN "absent"
                                             ELSE IF n = "colorsys" THEN c ELSE w] :
                          c \in {"absent", "loaded"}, w \in {"absent", "loaded"}}
    /\ originalPath = <<>>
    /\ pathBefore = sysPath
    /\ modulesBefore = sysModules

SpecModules == InitModules /\ [][NextModules]_vars

\* A dependency list handed to _validate_dependencies.
InitValidate ==
    /\ InitBase
    /\ IdleButValidate
    /\ valPc = "given"
    /\ valIn \in DepArguments
    /\ valOut = NoValidation

SpecValidate == InitValidate /\ [][NextValidate]_vars

\* The lib folders before any download: each library file absent or the user's own
\* ("custom"); the folder under SCRIPT_KIWI_HOME exists only when the variable is set.
InitLibs ==
    /\ InitBase
    /\ IdleButLibs
    /\ homeRelocated \in BOOLEAN
    /\ libFiles \in [LibFolders -> [LibraryNames -> {"absent", "custom"}]]
    /\ (~homeRelocated => libFiles["relocated"] = NoLibFiles["relocated"])
    /\ libBefore = libFiles
    /\ libInRegistry \in [LibraryNames -> BOOLEAN]
    /\ libCalls = {}

SpecLibs == InitLibs /\ [][NextLibs]_vars

\* A call of a function decorated with with_retry(max_retries, backoff_base).
InitRetry ==
    /\ InitBase
    /\ IdleButRetry
    /\ retryPc = "call"
    /\ retryIn \in [max_retries : 0..MaxRetries, backoff_base : BackoffBases]
    /\ attempt = 0
    /\ outcomes = <<>>
    /\ waits = <<>>
    /\ lastError = NoError
    /\ raisedError = NoError

SpecRetry == InitRetry /\ [][NextRetry]_vars

(***************************************************************************)
(* Resolution priority                                                     *)
(***************************************************************************)

Called == resolved.location # "pending"

HasName(files, name) == \E p \in files : p.name = name

\* The files of a tier that a call with these arguments searches: every file of
\* the name when no category is passed, those below the category otherwise.
InScope(files, args) == Matches(files, args.name, args.category)

\* C1 as stated: resolve returns the Project-tier path whenever a file for the name
\* exists in the Project tier, whatever the User tier, the Registry and the
\* lockfiles hold; and the User-tier path whenever the name is absent from the
\* Project tier but present in the User tier.
C1_ProjectShadowsAlways ==
    Called =>
        /\ HasName(projectFiles, resolveArgs.name)
              => (resolved.location = "project" /\ resolved.path \in projectFiles
                  /\ resolved.path.name = resolveArgs.name)
        /\ (~HasName(projectFiles, resolveArgs.name) /\ HasName(userFiles, resolveArgs.name))
              => (resolved.location = "user" /\ resolved.path \in userFiles
                  /\ resolved.path.name = resolveArgs.name)

\* C1 amended: the same, for the files inside the scope the call searches (the whole
\* tier without a category, the category's directory with one): a Project-tier file
\* in scope is returned whatever the User tier, the Registry and the lockfiles hold;
\* with none in scope, a User-tier file in scope is returned even if the Registry
\* holds the name.
C1_ProjectShadowsInScope ==
    Called =>
        /\ InScope(projectFiles, resolveArgs) # {}
              => (resolved.location = "project"
                  /\ resolved.path \in InScope(projectFiles, resolveArgs))
        /\ (InScope(projectFiles, resolveArgs) = {} /\ InScope(userFiles, resolveArgs) # {})
              => (resolved.location = "user"
                  /\ resolved.path \in InScope(userFiles, resolveArgs))

\* A call that found the script in the Project tier while the User tier, the Registry
\* and a lockfile pin all hold the same name.
C1_Witness ==
    /\ resolved.location = "project"
    /\ InScope(userFiles, resolveArgs) # {}
    /\ registryClient = "ok" /\ registry[resolveArgs.name].present
    /\ resolved.lockfile_version # None

(***************************************************************************)
(* Environment creation                                                    *)
(***************************************************************************)

\* The processes inside environment creation: from the start of the venv build
\* until the pip upgrade has finished.
Creating == {p \in Procs : envPc[p] \in {"venv", "upgrade"}}

\* C2: across the processes calling ensure_venv concurrently on the same venv_dir,
\* at most one is inside environment creation at any moment.
C2_AtMostOneCreation == Cardinality(Creating) <= 1

\* C3: a process whose existence test (directory plus bin/python) succeeded saw a
\* fully created environment, never one whose creation is still in progress or
\* was abandoned part-way.
C3_NeverSeesHalfBuilt ==
    \A p \in Procs : envOutcome[p] = "found" => venvComplete

(***************************************************************************)
(* The execution pipeline                                                  *)
(***************************************************************************)

\* No code of the script has run: module not loaded, entry function not called,
\* no subprocess started.
NoScriptCodeRan == ~did.loaded /\ ~did.called /\ ~did.spawned

PreExecutionStages == {"params", "resolve", "download", "preflight", "libs", "deps",
                       "install", "dryrun"}

ExecutionStages == {"start", "load", "call", "finish", "importerror", "exception"}

Returned == runPc = "done"

\* C4: with dry_run=true no script code is executed on any path: the call never
\* enters the execution stages, and when it reaches the end of the dependency
\* verification it stops there and reports validation_passed.
C4_DryRunExecutesNothing ==
    req.dry_run =>
        /\ NoScriptCodeRan /\ ~did.started
        /\ runPc \notin ExecutionStages
        /\ Returned => response.at \in PreExecutionStages
        /\ (Returned /\ response.at = "dryrun") => response.status = "validation_passed"

\* A dry run that installed a missing package and then reported validation_passed.
C4_Witness ==
    /\ req.dry_run /\ Returned
    /\ response.status = "validation_passed"
    /\ did.installed

\* C5: a failure of resolution or of a dependency step is detected before any script
\* code runs and answered with a JSON error response; execute never raises.
C5_EarlyFailuresAreStructured ==
    (Returned /\ response.at \in {"resolve", "download", "libs", "deps", "install"})
        => (response.kind = "json" /\ NoScriptCodeRan)

HasTerminalEntry(eid) ==
    \E i \in DOMAIN history :
        history[i].execution_id = eid /\ history[i].status # "running"

HasRemoteCall(eid) ==
    \E i \in DOMAIN remoteCalls : remoteCalls[i].execution_id = eid

\* C6: every execution that was started is recorded before the response is returned:
\* with a healthy log directory the history holds an entry with its terminal status
\* and complete_execution has been called for it.
C6_EveryExecutionRecorded ==
    (Returned /\ did.started /\ logDir = "ok" /\ response.kind = "json")
        => (HasTerminalEntry(execId) /\ HasRemoteCall(execId))

\* C7: when logging fails (the history file cannot be appended to, or its directory
\* cannot be created), execute still returns a response, and a response built from
\* the script's result carries the status the script produced.
C7_LoggingFailuresNonFatal ==
    (Returned /\ did.started /\ logDir # "ok")
        => /\ response.kind = "json"
           /\ response.at = "finish" => response.status = scriptStatus

\* C8: every response returned for an execution carries a non-null execution_id,
\* the final status, metadata.duration_sec and metadata.cost_usd.
C8_ResponseCarriesIdStatusMetadata ==
    (Returned /\ did.started /\ response.kind = "json")
        => (response.execution_id # None /\ response.hasStatus /\ response.hasMetadata)

\* C9: every response execute returns is a JSON object with a top-level status.
C9_EveryResponseHasStatus ==
    (Returned /\ response.kind = "json") => response.hasStatus

\* C10: when the preflight validation fails the call short-circuits with the
\* validation errors: no package is installed, no execution is started, no script
\* code runs.
C10_PreflightFailureShortCircuits ==
    preflight = "fail" =>
        /\ Returned
        /\ response.kind = "json" /\ response.status = "validation_failed"
        /\ response.at = "preflight"
        /\ ~did.installed /\ ~did.started /\ NoScriptCodeRan

\* A real (non-dry) run of a script present locally and in the registry, stopped by
\* a failing preflight.
C10_Witness ==
    /\ preflight = "fail" /\ Returned
    /\ ~req.dry_run
    /\ resolved.location \in {"project", "user"}
    /\ response.status = "validation_failed"

(***************************************************************************)
(* The dependency stages                                                   *)
(***************************************************************************)

\* The library verification has just been decided for libIn.
LibsDecided ==
    \/ depPc = "merge"
    \/ depPc = "returned" /\ depResponse.code = "MISSING_DEPENDENCIES"

\* The required names with no {name}.py in the lib/ directory of the project being
\* run nor in the user tier's.
AbsentLibs == {l \in libIn.required : l \notin libIn.project /\ l \notin libIn.user}

\* C11: a script declaring a required library that is in neither tier's lib/
\* directory fails with MISSING_DEPENDENCIES listing each absent name and goes no
\* further; a name present in either tier is never reported missing.
C11_MissingLibsAreExactlyTheAbsent ==
    LibsDecided =>
        /\ AbsentLibs # {} => /\ depPc = "returned"
                              /\ depResponse.code = "MISSING_DEPENDENCIES"
        /\ depPc = "returned" => depResponse.missing_libs = AbsentLibs

\* The packages pip was run for, by how it ended.
PipFailed == {n \in DOMAIN pipIn.outcome : pipIn.outcome[n] # "ok"}
PipSucceeded == {n \in DOMAIN pipIn.outcome : pipIn.outcome[n] = "ok"}

\* C12: when at least one missing package fails to install (some or all), the run
\* ends there with an error response: it never proceeds to the execution, and the
\* response reports the packages that were installed and those that failed.
C12_InstallFailureIsFatal ==
    (depDid.installed /\ PipFailed # {}) =>
        /\ depPc = "returned"
        /\ depResponse.status = "error"
        /\ depResponse.error_type = "dependency_error"
        /\ NamesOf(depResponse.installed) = PipSucceeded
        /\ NamesOf(depResponse.failed) = PipFailed

\* A partial failure: one package installed, another failed.
C12_Witness ==
    /\ depDid.installed /\ depPc = "returned"
    /\ PipSucceeded # {} /\ PipFailed # {}
    /\ depResponse.installed # <<>> /\ depResponse.failed # <<>>

\* The registry's dependency metadata is not a list of records each with a string
\* name (a row without the field, null, has no metadata to corrupt).
Corrupted(v) ==
    \/ v.kind \notin {"list", "null"}
    \/ \E i \in DOMAIN v.items : v.items[i].kind # "dict" \/ ~IsString(v.items[i].name)

\* C13: corrupted registry dependency metadata ends the run at once with
\* error_type metadata_corruption and a suggestion to republish, before any package
\* check or install and before the execution.
C13_CorruptedMetadataFailsFast ==
    Corrupted(mergeIn.registry) =>
        /\ depPc = "returned"
        /\ depResponse.status = "error"
        /\ depResponse.error_type = "metadata_corruption"
        /\ depResponse.suggestion = "republish"
        /\ ~depDid.probed /\ ~depDid.installed

\* The merge has run on a valid registry list: pipDeps is the merged list.
Merged == mergeIn.registry.truthy /\ ~ValidationFails(mergeIn.registry)

\* C14: a package name held both by the file's dependencies and by the registry's
\* appears exactly once in the merged list, with the registry's entry (its version
\* constraint included).
C14_RegistryEntryKeptOnCollision ==
    Merged =>
        \A i \in DOMAIN mergeIn.registry.items :
            LET n == mergeIn.registry.items[i].name
            IN  n \in NamesOf(mergeIn.file) =>
                  /\ Cardinality({k \in DOMAIN pipDeps : pipDeps[k].name = n}) = 1
                  /\ \A k \in DOMAIN pipDeps :
                       pipDeps[k].name = n =>
                         \E j \in DOMAIN mergeIn.registry.items :
                            /\ mergeIn.registry.items[j].name = n
                            /\ mergeIn.registry.items[j].version = pipDeps[k].version

(***************************************************************************)
(* Undeclared dependencies                                                 *)
(***************************************************************************)

\* C15: when the script fails on the import of a package that is not installed, under
\* either strategy and with log streaming on or off, the response carries error_type
\* dependency_error and a non-null missing_module (at its top level or in its result).
C15_ImportFailureIsDependencyError ==
    (Returned /\ response.kind = "json" /\ fault.script = "import") =>
        /\ errorReport.error_type = "dependency_error"
        /\ errorReport.missing_module

(***************************************************************************)
(* The environment lock                                                    *)
(***************************************************************************)

\* The ensure_venv call of p is over (or none is under way).
CallEnded(p) == envPc[p] \in {"idle", "returned", "raised"}

\* C16: on every path through ensure_venv on which the lock was acquired, it is
\* released before the call returns or raises: no process holds the lock once its
\* call has ended.
C16_LockReleasedWhenCallEnds ==
    \A p \in Procs : CallEnded(p) => (p \notin lockHolder /\ ~lockAcquired[p])

\* A call that took the lock (no other process has moved) and ended by the
\* creation failure.
C16_Witness ==
    \E p \in Procs :
        /\ envPc[p] = "raised" /\ envOutcome[p] = "failed"
        /\ \A q \in Procs \ {p} : envPc[q] = "idle" /\ envOutcome[q] = "none"
        /\ lockHolder = {}

\* C17: a process whose lock attempt fails because another process holds the lock
\* does not wait for the holder: it goes on to the re-check and its call ends, even
\* if the holder never releases the lock.
C17_LoserNeverWaits ==
    (envPc[NumProcs] = "lock" /\ lockHolder # {} /\ NumProcs \notin lockHolder)
        ~> CallEnded(NumProcs)

\* The loser is at the re-check, its attempt failed, the holder still holds the lock.
C17_Witness ==
    /\ envPc[NumProcs] = "recheck"
    /\ ~lockAcquired[NumProcs]
    /\ lockHolder # {} /\ NumProcs \notin lockHolder


\* The number of seconds the claim allows the subprocess: min(t, 1800) for a requested
\* t, 300 when none is given.
AllowedSeconds ==
    IF procIn.timeout.given THEN Min(procIn.timeout.sec, 1800) ELSE 300

\* C18: a subprocess-based script runs for at most min(t, 1800) seconds for a requested
\* _timeout t and at most 300 seconds when none is given; a subprocess that has not
\* exited by then is killed and the run returns an error, with log streaming on or off.
C18_TimeoutKillsTheSubprocess ==
    /\ child = "running" => clock <= AllowedSeconds
    /\ parentPc = "returned" => child # "running"
    /\ child = "killed" =>
          /\ clock = AllowedSeconds
          /\ parentPc = "returned"
          /\ procResult.status = "error"

\* C18 witness: a script asked for an hour, was still running after 1800 seconds, and
\* was killed then, the run returning an error.
C18_Witness ==
    /\ procIn.timeout = [given |-> TRUE, sec |-> 3600]
    /\ child = "killed"
    /\ clock = 1800
    /\ parentPc = "returned"
    /\ procResult.status = "error"


\* C19: while a subprocess-based script runs, the two pipes are read independently of
\* each other, so whatever the volume and interleaving of its output the subprocess is
\* never blocked forever on a full pipe, and the parent always returns: it waits for the
\* process up to the timeout, kills it on timeout, and waits for each reader thread for
\* a bounded time only.
C19_NeverBlockedForeverAndParentReturns ==
    /\ [](\A s \in Streams : (BlockedOn(s) /\ reader[s] = "running") => ENABLED Drain(s))
    /\ \A s \in Streams : BlockedOn(s) ~> ~BlockedOn(s)
    /\ <>(parentPc = "returned")

\* C19 witness: with log streaming on, the parent has returned through both joins
\* although the stdout reader had not finished, after the subprocess had filled a pipe.
C19_Witness ==
    /\ procIn.stream_logs
    /\ parentPc = "returned"
    /\ ~procResult.timedOut
    /\ child = "exited"
    /\ reader["out"] = "running"
    /\ written["err"] = MaxOutput
    /\ written["out"] = MaxOutput


\* The handlers the loops have rewired.
Rewired == {updatedHandlers[i] : i \in 1..Len(updatedHandlers)}

\* The invocation has ended, by return or by exception.
FuncEnded == funcPc \in {"returned", "raised"}

\* C20: after a function-based invocation ends, by normal return or by any exception
\* raised at any point after the rewiring, sys.stderr and the stream of every logging
\* handler that was rewired are the objects they were before the invocation.
C20_StreamsRestoredAfterInvocation ==
    FuncEnded =>
        /\ sysStderr = "original_stderr"
        /\ \A h \in Rewired : handlerStream[h] = handlerBefore[h]

\* C23: for every payload d and every item cap n, truncating an already truncated
\* payload changes nothing: truncate(truncate(d, n), n) = truncate(d, n).
C23_TruncationIsIdempotent ==
    truncPc = "twice" => truncTwice = truncOnce

\* The same restricted to payloads whose strings are all within the string cap:
\* only the arrays decide.
ArraysOnlyIdempotent ==
    (truncPc = "twice" /\ \A i \in 1..Len(truncIn.data.items) :
         LET v == truncIn.data.items[i]
         IN  /\ v.len <= MAX_STRING_LENGTH
             /\ \A j \in 1..Len(v.items) : v.items[j].len <= MAX_STRING_LENGTH)
    => truncTwice = truncOnce

\* The positions of the history that hold the running entry, the mirrored lines and
\* the terminal entries of an execution.
RunningEntries(eid) ==
    {i \in DOMAIN history : /\ history[i].execution_id = eid
                            /\ history[i].status = "running"
                            /\ ~history[i].log_line}
MirroredLines(eid) ==
    {i \in DOMAIN history : history[i].execution_id = eid /\ history[i].log_line}
TerminalEntries(eid) ==
    {i \in DOMAIN history : history[i].execution_id = eid /\ history[i].status # "running"}

\* C22: for every execution an entry with status running is created at start, before
\* any script code runs, and it is followed by exactly one entry with a terminal
\* status, written at completion under the same execution_id; no mirrored line and
\* no terminal entry of an execution precedes its running entry.
C22_RunningThenExactlyOneTerminal ==
    /\ (did.loaded /\ execId # None) => RunningEntries(execId) # {}
    /\ \A i \in MirroredLines(execId) \cup TerminalEntries(execId) :
           \E j \in RunningEntries(execId) : j < i
    /\ (Returned /\ did.started) => Cardinality(TerminalEntries(execId)) = 1

\* The same for a call that finds the log directory writable: what remains is the
\* number of terminal entries.
WritableLogExactlyOneTerminal ==
    (Returned /\ did.started /\ logDir = "ok") => Cardinality(TerminalEntries(execId)) = 1

\* With a writable log directory the running entry is there before any script code
\* runs and nothing of the execution precedes it.
WritableLogRunningEntryFirst ==
    logDir = "ok" =>
        /\ (did.loaded /\ execId # None) => RunningEntries(execId) # {}
        /\ \A i \in MirroredLines(execId) \cup TerminalEntries(execId) :
               \E j \in RunningEntries(execId) : j < i

\* ---------------------------------------------------------------------------------
\* The result in the response and in the result file.

\* The execution has answered normally.
Responded == shapePc = "done"

\* C24: when the script's result holds an array longer than the configured maximum
\* item count, every array embedded inline in the response has at most that many
\* items, under either execution strategy.
C24_InlineArraysWithinMaxItems ==
    Responded => LongestList(shapeResponse.result) <= MAX_ARRAY_ITEMS

\* What the script handed back as its result: its data where it names one, or
\* everything it returned but the status and the metadata.
ScriptData(value) ==
    IF ~IsDict(value) THEN value
    ELSE IF Get(value, "data") # JNull /\ Get(value, "status") # JText("error")
    THEN Get(value, "data")
    ELSE Without(value, {"status", "metadata"})

\* C25: whenever a result file is written its content is the script's original
\* result in full, identical to what the script returned: the value itself, its
\* data, or its data under the key data.
C25_FileHoldsTheOriginalResult ==
    resultFile.written =>
        resultFile.content \in {shapeIn.value, ScriptData(shapeIn.value),
                                Only("data", ScriptData(shapeIn.value))}

\* The result whose serialized size decides on the file.
SerializedResult == IF resultFile.written THEN resultFile.content ELSE resultData

\* C26: a result file is written if and only if the caller supplied _output_file,
\* or did not disable default persistence, or the serialized result exceeds the
\* byte cap.
C26_FileWrittenIffAskedDefaultOrLarge ==
    shapePc \in {"done", "raised"} =>
        (resultFile.written <=>
            \/ shapeIn.output_file
            \/ shapeIn.save_output
            \/ SerializedSize(SerializedResult) > MAX_RESPONSE_SIZE_BYTES)

\* The two cases C26 names hold: nothing asked and a small result, no file; nothing
\* asked and a result over the cap, a file.
NothingAskedFileIffLarge ==
    (Responded /\ ~shapeIn.output_file /\ ~shapeIn.save_output) =>
        (resultFile.written <=> SerializedSize(SerializedResult) > MAX_RESPONSE_SIZE_BYTES)

\* The script returns {status: success, data: D, metadata: M}, D a dict small enough
\* to be inlined, and exits normally.
ReturnsSmallData ==
    /\ IsDict(shapeIn.value)
    /\ DOMAIN shapeIn.value.sub = {"status", "data", "metadata"}
    /\ Get(shapeIn.value, "status") = JText("success")
    /\ IsDict(Get(shapeIn.value, "data"))
    /\ SerializedSize(Get(shapeIn.value, "data")) <= MAX_RESPONSE_SIZE_BYTES
    /\ shapeIn.returncode = 0

\* C27: for a script returning {status: success, data: D, metadata: M} with D small
\* enough to be inlined the response has status success, a result equal to D itself
\* and metadata.duration_sec.
C27_ResultIsTheDataItself ==
    (shapePc \in {"done", "raised"} /\ ReturnsSmallData) =>
        /\ shapeResponse.status = "success"
        /\ shapeResponse.result = Get(shapeIn.value, "data")
        /\ shapeResponse.duration_sec

\* What holds of C27: the entry function's non-empty data, persistence disabled.
FunctionDataNoPersistence ==
    (/\ Responded
     /\ ReturnsSmallData
     /\ shapeIn.strategy = "function"
     /\ Truthy(Get(shapeIn.value, "data"))
     /\ ~shapeIn.output_file
     /\ ~shapeIn.save_output) =>
        /\ shapeResponse.status = "success"
        /\ shapeResponse.result = Get(shapeIn.value, "data")
        /\ shapeResponse.duration_sec

\* C28: a dry run touches no filesystem output path: no step of a call made with
\* dry_run creates or modifies a result file or creates an output folder, whether
\* in the per-script output folder, the temporary folder or at the path given.
C28_DryRunTouchesNoOutputPath == [][req.dry_run => outFs' = outFs]_vars

\* A dry run has answered validation_passed and no output path exists.
C28_Witness ==
    /\ req.dry_run
    /\ Returned
    /\ response.status = "validation_passed"
    /\ outFs = NoOutput

\* An execution that is no dry run does write result files.
ResultFileWritten == ~req.dry_run /\ Returned /\ outFs.files # {}

\* ---------------------------------------------------------------------------------
\* The parameters handed to the script.

Invoked == paramPc = "invoked"

\* The tokens of the command line.
ArgvTokens == {handed.argv[i] : i \in DOMAIN handed.argv}

\* The script is handed none of the four control parameters: no such key in the
\* dict, no flag of such a key on the command line.
NoControlParamHanded ==
    /\ DOMAIN handed.dict \cap ControlKeys = {}
    /\ \A k \in ControlKeys : ArgFlag(k) \notin ArgvTokens /\ NoFlag(k) \notin ArgvTokens

\* A parameter reaches the script: in the dict with its value, or on the command
\* line as its flag (a list of no items has no argument to show).
PassedThrough(k) ==
    IF handed.kind = "dict"
    THEN k \in DOMAIN handed.dict /\ handed.dict[k] = paramIn.parameters[k]
    ELSE \/ paramIn.parameters[k] = PList(<<>>)
         \/ ArgFlag(k) \in ArgvTokens
         \/ NoFlag(k) \in ArgvTokens

\* C29: whatever the caller supplies, the parameters handed to the script never
\* contain _timeout, _stream_logs, _output_file or _save_output, and every other
\* parameter is passed through.
C29_ControlParamsStrippedOthersPassed ==
    Invoked =>
        /\ NoControlParamHanded
        /\ \A k \in DOMAIN paramIn.parameters \ ControlKeys : PassedThrough(k)

\* What holds of C29: the four are never handed over; an entry function receives
\* every other parameter; a subprocess receives those that are not None and do not
\* start with an underscore.
ControlParamsStripped ==
    Invoked =>
        /\ NoControlParamHanded
        /\ \A k \in DOMAIN paramIn.parameters \ ControlKeys :
             (\/ handed.kind = "dict"
              \/ paramIn.parameters[k] # PNone /\ ~StartsWithUnderscore(k)) => PassedThrough(k)

\* ---------------------------------------------------------------------------------
\* The install loop.

IsNamed(i) == instIn.packages[i] # ""

NamedPackages == SelectSeq(instIn.packages, LAMBDA n : n # "")

\* The entries of installed and of failed that stand for the package at position i.
RecordsOf(i) ==
    Cardinality({j \in DOMAIN installedList : installedList[j].at = i})
    + Cardinality({j \in DOMAIN failedList : failedList[j].at = i})

\* C30: when a list of packages is installed, each failure (non-zero exit, timeout,
\* raised error) is recorded for that package alone and never aborts the remaining
\* installs: every named package is attempted, in order, and ends up in exactly one
\* of the installed list and the failed list.
C30_EveryPackageAttemptedAndRecordedOnce ==
    instPc = "returned" =>
        /\ attempted = NamedPackages
        /\ \A i \in DOMAIN instIn.packages : IsNamed(i) => RecordsOf(i) = 1
        /\ \A j \in DOMAIN failedList :
             /\ failedList[j].name = instIn.packages[failedList[j].at]
             /\ failedList[j].error = instIn.outcome[failedList[j].at]
             /\ failedList[j].error # "ok"
        /\ \A j \in DOMAIN installedList :
             /\ installedList[j].name = instIn.packages[installedList[j].at]
             /\ instIn.outcome[installedList[j].at] = "ok"
        /\ instResult.installed = installedList
        /\ instResult.failed = failedList

\* The loop has returned with a package installed after an earlier one failed.
C30_Witness ==
    /\ instPc = "returned"
    /\ \E i \in DOMAIN failedList, j \in DOMAIN installedList :
           failedList[i].at < installedList[j].at
    /\ \E i \in DOMAIN failedList : failedList[i].error = "timeout"

\* ---------------------------------------------------------------------------------
\* Concurrent invocations and the history log.

\* C21: when several invocations run concurrently each is independent: every entry
\* written to the history log on behalf of an invocation (start entry, mirrored
\* diagnostic lines, terminal entry) carries that invocation's own execution_id,
\* and no two invocations share an execution_id.
C21_EntriesCarryOwnExecutionId ==
    /\ \A n \in DOMAIN historyFile :
           historyFile[n].execution_id = logId[historyFile[n].by]
    /\ \A i, j \in Invocations :
           (i # j /\ logId[i] # 0 /\ logId[j] # 0) => logId[i] # logId[j]

\* What holds of C21: the start entry and the terminal entry of every invocation
\* carry its own execution_id, and the ids are distinct.
StartAndTerminalCarryOwnId ==
    /\ \A n \in DOMAIN historyFile :
           historyFile[n].what # "line" =>
               historyFile[n].execution_id = logId[historyFile[n].by]
    /\ \A i, j \in Invocations :
           (i # j /\ logId[i] # 0 /\ logId[j] # 0) => logId[i] # logId[j]

\* A line of one invocation stands in the log under the id of another.
LineUnderAnotherId ==
    \E n \in DOMAIN historyFile :
        /\ historyFile[n].what = "line"
        /\ historyFile[n].execution_id # logId[historyFile[n].by]

(***************************************************************************)
(* Registry lookup failures                                                *)
(***************************************************************************)
\* The last resolve call found the name in neither local tier.
NotFoundLocally ==
    /\ resolveArgs # NoCall
    /\ resolved # NoResult
    /\ resolved.location \notin {"project", "user"}

\* C31: a registry lookup that fails (no client, or a lookup that raises) never makes
\* resolve raise; the registry counts as not holding the name, so a call that finds
\* the name in neither local tier reports it as found nowhere.
C31_RegistryFailureIsNotFound ==
    /\ resolved.location # "raised"
    /\ (NotFoundLocally /\ registryClient # "ok") => resolved.location = None

\* A call whose registry lookup raised although the registry holds the name, and
\* which returned "found nowhere".
C31_Witness ==
    /\ NotFoundLocally
    /\ registryClient = "failing"
    /\ registry[resolveArgs.name].present
    /\ resolved.location = None

(***************************************************************************)
(* Lockfile pins                                                           *)
(***************************************************************************)
\* The version a lockfile supplies for a name: None when the file is absent or does
\* not list the name.
PinOf(lock, name) == IF lock.exists THEN lock.pins[name] ELSE None

\* The project lockfile's pin, the user lockfile's pin when the project lockfile
\* supplies none.
PinWithFallback(name) ==
    IF PinOf(projectLock, name) # None THEN PinOf(projectLock, name)
    ELSE PinOf(userLock, name)

\* C32: the pinned version of a resolve call is the project lockfile's pin, or the
\* user lockfile's pin whenever the project lockfile supplies none (absent, or not
\* listing the name); None when neither supplies one.
C32_PinFallsBackToUserLockfile ==
    (resolveArgs # NoCall /\ resolved # NoResult)
        => resolved.lockfile_version = PinWithFallback(resolveArgs.name)

\* The part that holds: with no project lockfile file, the user lockfile's pin is
\* used, and with neither file the call is unpinned.
PinFallsBackWhenProjectLockfileAbsent ==
    (resolveArgs # NoCall /\ resolved # NoResult /\ ~projectLock.exists)
        => resolved.lockfile_version = PinOf(userLock, resolveArgs.name)

\* A call left unpinned although the user lockfile pins the name: the project
\* lockfile exists and does not list it.
ProjectLockfileHidesUserPin ==
    /\ resolveArgs # NoCall /\ resolved # NoResult
    /\ projectLock.exists
    /\ PinOf(projectLock, resolveArgs.name) = None
    /\ PinOf(userLock, resolveArgs.name) # None
    /\ resolved.lockfile_version = None

(***************************************************************************)
(* remove: dependents and dry runs                                         *)
(***************************************************************************)
RemoveCalled == rmReq # NoRemoveRequest /\ rmReq.script_name # ""

TiersNow == [project |-> rmProject, user |-> rmUser, rows |-> rmRows]

\* The dependents the check of the last call found in the tiers it started on.
DetectedDependents ==
    DependentsIn(rmBefore.project, rmBefore.user, rmBefore.rows, rmReq.script_name)

\* The last call ran the dependency check and it found a dependent.
DependentDetected ==
    /\ RemoveCalled
    /\ ~rmReq.force /\ ~rmReq.dry_run
    /\ DetectedDependents # {}

\* C33: a remove call without force whose dependency check detects a dependent is
\* blocked: no tier has changed and the error returned names the dependents found.
C33_BlockedWhenDependentsDetected ==
    DependentDetected =>
        /\ rmResponse.kind = "has_dependencies"
        /\ rmResponse.dependents = DetectedDependents
        /\ TiersNow = rmBefore

\* A blocked call that had something to remove: the script is in the project tier
\* and in the registry, and a project script imports it.
C33_Witness ==
    /\ DependentDetected
    /\ rmReq.tier = "all"
    /\ ScriptFile("c1", "s", {}) \in rmBefore.project
    /\ rmBefore.rows["s"].state = "active" /\ rmClient
    /\ [name |-> "d", tier |-> "project"] \in rmResponse.dependents
    /\ rmResponse.kind = "has_dependencies"

\* C34: a remove call with dry_run = true deletes nothing, whichever tiers it selects
\* and whatever it is asked to remove (a script, a library, a registry entry).
C34_DryRunDeletesNothing ==
    (RemoveCalled /\ rmReq.dry_run) => TiersNow = rmBefore

\* The part that holds: a dry run over the local tiers of a script that is no
\* library leaves both tiers as they were.
DryRunKeepsScriptFiles ==
    (/\ RemoveCalled /\ rmReq.dry_run
     /\ ~rmReq.is_lib
     /\ ~HasLib(rmBefore.project, rmReq.script_name)
     /\ ~HasLib(rmBefore.user, rmReq.script_name))
        => (rmProject = rmBefore.project /\ rmUser = rmBefore.user)

\* A dry run that unlinked a library file.
DryRunRemovedLib ==
    /\ RemoveCalled /\ rmReq.dry_run
    /\ HasLib(rmBefore.project, rmReq.script_name)
    /\ ~HasLib(rmProject, rmReq.script_name)
    /\ rmResponse.project = "removed"

\* A dry run that deleted the registry row, reported as would_remove.
DryRunDeletedRow ==
    /\ RemoveCalled /\ rmReq.dry_run
    /\ rmBefore.rows[rmReq.script_name].state = "active"
    /\ rmRows[rmReq.script_name].state = "absent"
    /\ rmResponse.registry = "would_remove"

(***************************************************************************)
(* publish: the latest version                                             *)
(***************************************************************************)
\* No publish call is in flight and at least one has returned "published".
PublishesReturned ==
    /\ \A p \in Publishers : ~InFlight(p)
    /\ \E p \in Publishers : pubPc[p] = "published"

LatestRows == {r \in pubRows : r.is_latest}

\* C36: once the publish calls have returned, interleaved ones included, exactly one
\* version row of the script is marked is_latest and it is scripts.latest_version.
C36_ExactlyOneLatestVersion ==
    PublishesReturned =>
        /\ Cardinality(LatestRows) = 1
        /\ \A r \in LatestRows : r.version = pubLatest

\* The part that holds: publishes that never overlap and never fail leave exactly one
\* latest row, the one scripts.latest_version names.
OneLatestWhenSequential ==
    (PublishesReturned /\ ~pubOverlap /\ ~pubFailed) =>
        /\ Cardinality(LatestRows) = 1
        /\ \A r \in LatestRows : r.version = pubLatest

\* Two interleaved publishes have both returned "published" and two rows are latest.
TwoLatestRows ==
    /\ \A p \in Publishers : pubPc[p] = "published"
    /\ ~pubFailed
    /\ Cardinality(LatestRows) = 2

(***************************************************************************)
(* Auto-named result files                                                 *)
(***************************************************************************)
\* C37: two executions of one script that both persist their result to an
\* auto-named file never write the same path.
C37_AutoNamedPathsDiffer ==
    \A i, j \in Runs :
        (i # j /\ namePath[i] # NotWritten /\ namePath[j] # NotWritten)
            => namePath[i] # namePath[j]

\* Two executions persisted within one second: one file, holding the data of the
\* later writer only.
SamePathWrittenTwice ==
    \E i, j \in Runs :
        /\ i # j /\ namePath[i] # NotWritten
        /\ namePath[i] = namePath[j]
        /\ nameFiles[namePath[i]] = j

(***************************************************************************)
(* The import context after a run                                          *)
(***************************************************************************)
\* C38: when the run has returned, on whatever path, sys.path equals its value
\* before the run and the table of loaded modules is what it was: the script's
\* module is not registered and a module loaded before under the script's name
\* still is.
C38_PathAndModulesAsBefore ==
    modPc = "returned" =>
        /\ sysPath = pathBefore
        /\ sysModules = modulesBefore

\* The part that holds: sys.path is back to its value and the script's own module
\* is not left registered.
PathRestoredScriptModuleGone ==
    modPc = "returned" =>
        /\ sysPath = pathBefore
        /\ sysModules[modIn.stem] # "script"

\* A run of a script whose stem is the name of a module loaded before: after the
\* run that module is no longer registered.
LoadedModuleUnregistered ==
    /\ modPc = "returned"
    /\ modulesBefore[modIn.stem] = "loaded"
    /\ sysModules[modIn.stem] = "absent"

\* A module the script imported stays registered after the run.
ImportLeftRegistered ==
    /\ modPc = "returned"
    /\ \E n \in modIn.imports : modulesBefore[n] = "absent" /\ sysModules[n] = "loaded"

(***************************************************************************)
(* Validation of a dependency list                                         *)
(***************************************************************************)
Validated == valPc = "returned" /\ valIn.kind = "list"

\* An entry that is a record with a non-empty string name.
RecordWithName(dep) ==
    dep.kind = "dict" /\ dep.name \notin {None, EmptyName, NotAString}

\* The entries before position i pass every check.
FirstOffender(i) ==
    /\ i \in DOMAIN valIn.items
    /\ \A j \in 1..(i - 1) : CheckEntry(valIn.items[j]) = "ok"

OwnLibraries == {n \in LibraryNames : libBefore[UserLibFolder][n] = "custom"}

\* C39: downloading library dependencies, by load or by run's auto-download, never
\* overwrites a library file that exists in the user tier's lib/, also when
\* SCRIPT_KIWI_HOME relocates the user tier.
C39_ExistingLibraryKept ==
    \A n \in OwnLibraries : libFiles[UserLibFolder][n] = "custom"

\* The part that holds: the load tool's downloads, and run's downloads when the user
\* tier is not relocated, keep every existing library file.
ExistingLibraryKeptUnlessRunRelocated ==
    (~homeRelocated \/ \A c \in libCalls : c.tool = "load")
        => \A n \in OwnLibraries : libFiles[UserLibFolder][n] = "custom"

\* run's download replaced the user's own library file in the relocated user tier.
OwnLibraryOverwritten ==
    /\ homeRelocated
    /\ \E n \in OwnLibraries :
          /\ [tool |-> "run", name |-> n] \in libCalls
          /\ libFiles["relocated"][n] = "registry"

(***************************************************************************)
(* with_retry: bounded attempts                                            *)
(***************************************************************************)
\* The calls of the wrapped function that ended with a retryable error.
RetryableFailures == {k \in DOMAIN outcomes : outcomes[k] = "retryable"}

\* The retries: every call of the wrapped function after the first.
RetriesDone == IF outcomes = <<>> THEN 0 ELSE Len(outcomes) - 1

\* C40: after a failure with a retryable error the wrapped function is retried at
\* most max_retries times, and the wrapper sleeps backoff_base ** attempt before each
\* retry; when the attempts are used up the last retryable error is raised to the
\* caller; an error that is not retryable is raised at its first occurrence, with no
\* further call.
C40_BoundedRetriesWithBackoff ==
    /\ RetryableFailures # {} =>
          /\ RetriesDone <= retryIn.max_retries
          /\ Len(outcomes) <= retryIn.max_retries
    /\ Len(waits) \in {RetriesDone, RetriesDone + 1}
    /\ \A k \in DOMAIN waits : waits[k] = Pow(retryIn.backoff_base, k - 1)
    /\ (/\ outcomes # <<>> /\ Len(outcomes) = retryIn.max_retries
        /\ outcomes[Len(outcomes)] = "retryable")
          => /\ retryPc = "raised"
             /\ raisedError = [kind |-> "retryable", call |-> Len(outcomes)]
    /\ \A k \in DOMAIN outcomes :
          outcomes[k] = "other"
              => /\ k = Len(outcomes)
                 /\ retryPc = "raised"
                 /\ raisedError = [kind |-> "other", call |-> k]

\* max_retries = 3, backoff_base = 2: three calls failed with a retryable error, the
\* wrapper slept 1 and 2 seconds and raised the third error.
C40_Witness ==
    /\ retryIn = [max_retries |-> 3, backoff_base |-> 2]
    /\ outcomes = <<"retryable", "retryable", "retryable">>
    /\ waits = <<1, 2>>
    /\ retryPc = "raised"
    /\ raisedError = [kind |-> "retryable", call |-> 3]

====
